---------------------------- MODULE Spec2Model ----------------------------
(***************************************************************************)
(* dot4gravity: the two-player "gravity stones with bombs" engine of       *)
(* pallets/ajuna-board (src/dot4gravity/mod.rs) and its TurnBasedGame      *)
(* adapter (src/types.rs), as a state machine over one GameState.          *)
(*                                                                         *)
(* Rust values are encoded as follows:                                     *)
(*   Option<T>            <<>> for None, <<x>> for Some(x)                 *)
(*   Cell                 <<"Empty">>, <<"Block">>, <<"Stone", i>>         *)
(*   Coordinates          [row |-> r, col |-> c]                           *)
(*   [T; 2]               a function on 0..1                               *)
(*   Result<T, GameError> [res |-> "Ok", ...] or [res |-> <error kind>,    *)
(*                        local |-> the state held at the return];         *)
(*                        a panic (expect(), index out of bounds, integer  *)
(*                        overflow) is [res |-> "Panic"]                   *)
(*   H256 salt            [hi |-> bytes 0..29, b30 |-> byte 30,            *)
(*                         b31 |-> byte 31]                                *)
(***************************************************************************)
EXTENDS Integers, Sequences, FiniteSets, TLC

VARIABLES
    game_state,   \* the GameState the orchestrator holds
    turn,         \* the last call made on it (operation and arguments)
    result,       \* what that call returned: "Ok", a GameError kind or "Panic"
    moves,        \* number of calls that produced a new state so far
    last_mover    \* Option: the player of the last accepted move

vars == <<game_state, turn, result, moves, last_mover>>

-----------------------------------------------------------------------------
(* Program constants (mod.rs:32-42).                                       *)

INITIAL_SEED == 123456
INCREMENT == 74
MULTIPLIER == 75
MODULUS == 65536
BOARD_WIDTH == 10
BOARD_HEIGHT == 10
NUM_OF_PLAYERS == 2
BOMB_AMOUNT_PER_PLAYER == 3
BOMB_ENERGY_PER_PLAYER == 5
NUM_OF_BLOCKS == 10

\* u32 (Seed) values are kept as two 16-bit limbs [hi, lo] where the arithmetic
\* can leave the range of the model checker's integers; u8 values wrap at 256.
LIMB == 65536
U8_MODULUS == 256

-----------------------------------------------------------------------------
(* Bounds of the model.                                                    *)

\* Calls that produce a new state (accepted moves and aborts) explored after
\* the initial position.
MaxMoves == 1

-----------------------------------------------------------------------------
(* Option, Result, Cell, Coordinates.                                      *)

None == <<>>
Some(x) == <<x>>

Ok(gs) == [res |-> "Ok", state |-> gs]
\* local is the function's own game_state (its board, for a scan) as it is
\* when the function returns the error
Err(e, local) == [res |-> e, local |-> local]
Panic == [res |-> "Panic"]

GameErrors ==
    {"NoMoreBombsAvailable", "InsufficientBombEnergy", "InvalidBombCoordinates",
     "InvalidStonePosition", "NotPlayerTurn", "NoPreviousPosition",
     "GameAlreadyFinished"}

Empty == <<"Empty">>
Block == <<"Block">>
Stone(player_index) == <<"Stone", player_index>>

Coordinates(row, col) == [row |-> row, col |-> col]

Sides == {"North", "East", "South", "West"}
PowerLevels == {"One", "Two", "Three"}

\* e, with v evaluated first: the loops below hand their accumulator on by
\* value, as the code does, instead of as a growing unevaluated expression
Strict(v, e) == IF v = v THEN e ELSE e

-----------------------------------------------------------------------------
(* Coordinates::random (mod.rs:83-98): two steps of the linear             *)
(* congruential generator; u32 arithmetic saturates before the modulus.    *)
(* A seed is a natural number below 2^31.                                  *)

U32_MAX == [hi |-> LIMB - 1, lo |-> LIMB - 1]

u32(n) == [hi |-> n \div LIMB, lo |-> n % LIMB]

\* a * b for a u32 b and a small factor a, saturating at u32::MAX
saturating_mul(a, b) ==
    LET lo == a * b.lo
        hi == a * b.hi + (lo \div LIMB)
    IN  IF hi > LIMB - 1 THEN U32_MAX ELSE [hi |-> hi, lo |-> lo % LIMB]

\* a + b for a u32 a and a small summand b, saturating at u32::MAX
saturating_add(a, b) ==
    LET lo == a.lo + b
        hi == a.hi + (lo \div LIMB)
    IN  IF hi > LIMB - 1 THEN U32_MAX ELSE [hi |-> hi, lo |-> lo % LIMB]

\* a % m for a u32 a and a modulus of at most 2^16
u32_rem(a, m) == (((a.hi % m) * (LIMB % m)) + a.lo) % m

linear_congruential_generator(seed) ==
    u32_rem(saturating_add(saturating_mul(MULTIPLIER, u32(seed)), INCREMENT), MODULUS)

Coordinates_random(seed) ==
    LET random_seed_1 == linear_congruential_generator(seed)
        random_seed_2 == linear_congruential_generator(random_seed_1)
    IN  [coordinates |-> Coordinates(random_seed_1 % (BOARD_WIDTH - 1),
                                     random_seed_2 % (BOARD_HEIGHT - 1)),
         seed |-> random_seed_2]

\* Coordinates::is_opposite_cell (mod.rs:101-108)
is_opposite_cell(position, side) ==
    CASE side = "North" -> position.row = BOARD_HEIGHT - 1
      [] side = "East"  -> position.col = 0
      [] side = "South" -> position.row = 0
      [] side = "West"  -> position.col = BOARD_WIDTH - 1

\* Side::bound_coordinates (mod.rs:121-128)
bound_coordinates(side, position) ==
    CASE side = "North" -> Coordinates(0, position)
      [] side = "South" -> Coordinates(BOARD_HEIGHT - 1, position)
      [] side = "West"  -> Coordinates(position, 0)
      [] side = "East"  -> Coordinates(position, BOARD_WIDTH - 1)

-----------------------------------------------------------------------------
(* Board (mod.rs:195-217).  cells[row][col]; indexing outside the array    *)
(* panics, which callers test with in_array before reading.                *)

Board_new == [row \in 0..(BOARD_HEIGHT - 1) |-> [col \in 0..(BOARD_WIDTH - 1) |-> Empty]]

in_array(position) ==
    /\ position.row \in 0..(BOARD_HEIGHT - 1)
    /\ position.col \in 0..(BOARD_WIDTH - 1)

get_cell(board, position) == board[position.row][position.col]

update_cell(board, position, cell) ==
    [board EXCEPT ![position.row][position.col] = cell]

\* Cell::is_stone_droppable (mod.rs:66-68)
Cell_is_stone_droppable(cell) == ~(cell = Block \/ cell[1] = "Stone")

\* Bound::is_inside_board for Coordinates (dot4gravity/traits.rs)
is_inside_board(position) ==
    position.row < BOARD_HEIGHT /\ position.col < BOARD_WIDTH

\* Board::is_stone_droppable (mod.rs:204-206)
Board_is_stone_droppable(board, position) ==
    is_inside_board(position) /\ Cell_is_stone_droppable(get_cell(board, position))

-----------------------------------------------------------------------------
(* GameState helpers (mod.rs:271-312).                                     *)

is_player_in_game(gs, player) ==
    \E i \in 0..(NUM_OF_PLAYERS - 1) : gs.bomb_energy[i].player = player

\* Option<u8>: the energy of the first entry that names the player
get_bomb_energy_for(gs, player) ==
    IF \E i \in 0..(NUM_OF_PLAYERS - 1) : gs.bomb_energy[i].player = player
    THEN LET i == CHOOSE k \in 0..(NUM_OF_PLAYERS - 1) :
                    /\ gs.bomb_energy[k].player = player
                    /\ \A j \in 0..(k - 1) : gs.bomb_energy[j].player # player
         IN  Some(gs.bomb_energy[i].energy)
    ELSE None

unwrap_or_default(opt) == IF opt = None THEN 0 ELSE opt[1]

\* a variant of decrease_bomb_energy_for that takes nothing
decrease_bomb_energy_for_free(gs, player, amount) == gs

decrease_bomb_energy_for(gs, player, amount) ==
    [gs EXCEPT !.bomb_energy =
        [i \in 0..(NUM_OF_PLAYERS - 1) |->
            IF gs.bomb_energy[i].player = player
            THEN [gs.bomb_energy[i] EXCEPT !.energy = @ - amount]
            ELSE gs.bomb_energy[i]]]

\* a variant of is_player_turn that lets any player move
is_player_turn_any(gs, player) == TRUE

is_player_turn(gs, player) == gs.next_player = player

is_participant(gs, player) ==
    \E i \in 0..(NUM_OF_PLAYERS - 1) : gs.players[i] = player

\* players.iter().position(..).expect(..): callers test is_participant first,
\* the expect() panics otherwise
player_index(gs, player) ==
    CHOOSE k \in 0..(NUM_OF_PLAYERS - 1) :
        /\ gs.players[k] = player
        /\ \A j \in 0..(k - 1) : gs.players[j] # player

\* a variant of next_player that leaves the turn with the current player
next_player_stuck(gs) == gs.next_player

\* GameState::next_player (mod.rs:304-311)
next_player(gs) ==
    LET current_player_index ==
            CHOOSE k \in 0..(NUM_OF_PLAYERS - 1) :
                /\ gs.players[k] = gs.next_player
                /\ \A j \in 0..(k - 1) : gs.players[j] # gs.next_player
    IN  gs.players[(current_player_index + 1) % NUM_OF_PLAYERS]

-----------------------------------------------------------------------------
(* Game::new_game (mod.rs:371-398).  The while loop draws coordinates,     *)
(* advancing the seed on every draw, until NUM_OF_BLOCKS distinct ones are *)
(* placed.                                                                 *)

contains(seq, x) == \E i \in 1..Len(seq) : seq[i] = x

RECURSIVE place_blocks(_, _, _, _)
place_blocks(board, blocks, remaining_blocks, seed) ==
    IF remaining_blocks > 0
    THEN LET drawn == Coordinates_random(seed)
         IN  IF ~contains(blocks, drawn.coordinates)
             THEN place_blocks(update_cell(board, drawn.coordinates, Block),
                               Append(blocks, drawn.coordinates),
                               remaining_blocks - 1, drawn.seed)
             ELSE place_blocks(board, blocks, remaining_blocks, drawn.seed)
    ELSE [board |-> board, seed |-> seed]

\* a variant of draw_block that places a Block without looking for the drawn
\* coordinates among those already placed
draw_block_unchecked(locals) ==
    LET drawn == Coordinates_random(locals.seed)
    IN  [board |-> update_cell(locals.board, drawn.coordinates, Block),
         blocks |-> Append(locals.blocks, drawn.coordinates),
         remaining_blocks |-> locals.remaining_blocks - 1,
         seed |-> drawn.seed]

\* one iteration of the while loop (mod.rs:379-385) on the locals of new_game
draw_block(locals) ==
    LET drawn == Coordinates_random(locals.seed)
    IN  IF ~contains(locals.blocks, drawn.coordinates)
        THEN [board |-> update_cell(locals.board, drawn.coordinates, Block),
              blocks |-> Append(locals.blocks, drawn.coordinates),
              remaining_blocks |-> locals.remaining_blocks - 1,
              seed |-> drawn.seed]
        ELSE [locals EXCEPT !.seed = drawn.seed]

\* a variant of new_game_state that hands the first turn to player2
new_game_state_second_first(player1, player2, board, seed) ==
    [seed |-> seed,
     board |-> board,
     winner |-> None,
     next_player |-> player2,
     players |-> [i \in 0..(NUM_OF_PLAYERS - 1) |-> IF i = 0 THEN player1 ELSE player2],
     bomb_energy |-> [i \in 0..(NUM_OF_PLAYERS - 1) |->
                        [player |-> IF i = 0 THEN player1 ELSE player2,
                         energy |-> BOMB_ENERGY_PER_PLAYER]],
     bombs_placed |-> [i \in 0..(NUM_OF_PLAYERS - 1) |-> <<>>],
     last_move |-> None]

\* the GameState new_game returns (mod.rs:388-397)
new_game_state(player1, player2, board, seed) ==
    [seed |-> seed,
     board |-> board,
     winner |-> None,
     next_player |-> player1,
     players |-> [i \in 0..(NUM_OF_PLAYERS - 1) |-> IF i = 0 THEN player1 ELSE player2],
     bomb_energy |-> [i \in 0..(NUM_OF_PLAYERS - 1) |->
                        [player |-> IF i = 0 THEN player1 ELSE player2,
                         energy |-> BOMB_ENERGY_PER_PLAYER]],
     bombs_placed |-> [i \in 0..(NUM_OF_PLAYERS - 1) |-> <<>>],
     last_move |-> None]

\* a variant of new_game whose generator is shared between calls: a call that
\* follows another call of new_game goes on from the seed that call ended with
new_game_carried_seed(player1, player2, seed) ==
    LET start == IF seed = None THEN INITIAL_SEED ELSE seed[1]
        carried == IF game_state.last # None /\ game_state.last[1].op = "new_game"
                   THEN game_state.last[1].returned.seed
                   ELSE start
        placed == place_blocks(Board_new, <<>>, NUM_OF_BLOCKS, carried)
    IN  new_game_state(player1, player2, placed.board, placed.seed)

new_game(player1, player2, seed) ==
    LET placed == place_blocks(Board_new, <<>>, NUM_OF_BLOCKS,
                               IF seed = None THEN INITIAL_SEED ELSE seed[1])
    IN  new_game_state(player1, player2, placed.board, placed.seed)

-----------------------------------------------------------------------------
(* PowerLevel (mod.rs:139-190).                                            *)

\* a variant of can_use_level that asks for one unit of energy at every level
can_use_level_any(power_level, energy) == energy >= 1

can_use_level(power_level, energy) ==
    CASE power_level = "One"   -> energy >= 1
      [] power_level = "Two"   -> energy >= 2
      [] power_level = "Three" -> energy >= 3

\* a variant of detonate_cell that clears Blocks as well as Stones
detonate_cell_any(r, position) ==
    IF r.res # "Ok" THEN r
    ELSE IF ~in_array(position) THEN Panic
    ELSE IF get_cell(r.state.board, position) # Empty
         THEN Ok([r.state EXCEPT !.board = update_cell(@, position, Empty)])
         ELSE r

\* PowerLevel::detonate_cell: get_cell indexes the array, so a position
\* outside it panics
detonate_cell(r, position) ==
    IF r.res # "Ok" THEN r
    ELSE IF ~in_array(position) THEN Panic
    ELSE IF get_cell(r.state.board, position)[1] = "Stone"
         THEN Ok([r.state EXCEPT !.board = update_cell(@, position, Empty)])
         ELSE r

\* u8 arithmetic of the neighbour coordinates: center + 1 never overflows on
\* the board; center - 1 at 0 panics in a build with overflow checks and wraps
\* to 255 otherwise, where get_cell then panics: both builds panic.
u8_add(a, b) == (a + b) % U8_MODULUS
u8_sub(a, b) == (a - b + U8_MODULUS) % U8_MODULUS

\* The cells explode() visits, in the order of the calls (mod.rs:150-167)
level_two_cells(epicenter) ==
    <<Coordinates(u8_add(epicenter.row, 1), epicenter.col),
      Coordinates(epicenter.row, u8_add(epicenter.col, 1)),
      Coordinates(u8_sub(epicenter.row, 1), epicenter.col),
      Coordinates(epicenter.row, u8_sub(epicenter.col, 1))>>

level_three_cells(epicenter) ==
    <<Coordinates(u8_add(epicenter.row, 1), u8_add(epicenter.col, 1)),
      Coordinates(u8_add(epicenter.row, 1), u8_sub(epicenter.col, 1)),
      Coordinates(u8_sub(epicenter.row, 1), u8_add(epicenter.col, 1)),
      Coordinates(u8_sub(epicenter.row, 1), u8_sub(epicenter.col, 1))>>

RECURSIVE detonate_cells(_, _, _)
detonate_cells(r, cells, i) ==
    IF i > Len(cells) THEN r
    ELSE detonate_cells(detonate_cell(r, cells[i]), cells, i + 1)

explode(power_level, gs, epicenter) ==
    LET level_1 == detonate_cell(Ok(gs), epicenter)
        level_2 == IF power_level = "Two" \/ power_level = "Three"
                   THEN detonate_cells(level_1, level_two_cells(epicenter), 1)
                   ELSE level_1
    IN  IF power_level = "Three"
        THEN detonate_cells(level_2, level_three_cells(epicenter), 1)
        ELSE level_2

\* a variant of decrease_bomb_energy that takes one unit at every level
decrease_bomb_energy_flat(power_level, gs, player) ==
    decrease_bomb_energy_for(gs, player, 1)

decrease_bomb_energy(power_level, gs, player) ==
    LET energy_decrease == CASE power_level = "One"   -> 1
                             [] power_level = "Two"   -> 2
                             [] power_level = "Three" -> 3
    IN  decrease_bomb_energy_for(gs, player, energy_decrease)

-----------------------------------------------------------------------------
(* Move validators (mod.rs:318-366).  player_index is reached only after   *)
(* is_player_turn succeeded, i.e. for a player of the game.                *)

\* a variant of can_place_bomb that lets a fourth commitment through its check
can_place_bomb_above_limit(gs, player) ==
    IF gs.winner # None THEN "GameAlreadyFinished"
    ELSE IF ~is_player_turn(gs, player) THEN "NotPlayerTurn"
    ELSE IF ~is_participant(gs, player) THEN "Panic"
    ELSE IF Len(gs.bombs_placed[player_index(gs, player)]) > BOMB_AMOUNT_PER_PLAYER
         THEN "NoMoreBombsAvailable"
    ELSE "Ok"

\* a variant of can_place_bomb that asks for the turn before it looks at the
\* winner
can_place_bomb_turn_first(gs, player) ==
    IF ~is_player_turn(gs, player) THEN "NotPlayerTurn"
    ELSE IF gs.winner # None THEN "GameAlreadyFinished"
    ELSE IF ~is_participant(gs, player) THEN "Panic"
    ELSE IF Len(gs.bombs_placed[player_index(gs, player)]) >= BOMB_AMOUNT_PER_PLAYER
         THEN "NoMoreBombsAvailable"
    ELSE "Ok"

can_place_bomb(gs, player) ==
    IF gs.winner # None THEN "GameAlreadyFinished"
    ELSE IF ~is_player_turn(gs, player) THEN "NotPlayerTurn"
    ELSE IF ~is_participant(gs, player) THEN "Panic"
    ELSE IF Len(gs.bombs_placed[player_index(gs, player)]) >= BOMB_AMOUNT_PER_PLAYER
         THEN "NoMoreBombsAvailable"
    ELSE "Ok"

\* a variant of can_detonate_bomb that asks for the turn before it looks at
\* the winner
can_detonate_bomb_turn_first(gs, player, power_level) ==
    IF ~is_player_turn(gs, player) THEN "NotPlayerTurn"
    ELSE IF gs.winner # None THEN "GameAlreadyFinished"
    ELSE IF ~can_use_level(power_level, unwrap_or_default(get_bomb_energy_for(gs, player)))
         THEN "InsufficientBombEnergy"
    ELSE "Ok"

can_detonate_bomb(gs, player, power_level) ==
    IF gs.winner # None THEN "GameAlreadyFinished"
    ELSE IF ~is_player_turn(gs, player) THEN "NotPlayerTurn"
    ELSE IF ~can_use_level(power_level, unwrap_or_default(get_bomb_energy_for(gs, player)))
         THEN "InsufficientBombEnergy"
    ELSE "Ok"

\* a variant of can_drop_stone that does not look at the winner
can_drop_stone_any_time(gs, side, position, player) ==
    IF ~is_player_turn(gs, player) THEN "NotPlayerTurn"
    ELSE IF ~Board_is_stone_droppable(gs.board, bound_coordinates(side, position))
         THEN "InvalidStonePosition"
    ELSE "Ok"

can_drop_stone(gs, side, position, player) ==
    IF gs.winner # None THEN "GameAlreadyFinished"
    ELSE IF ~is_player_turn(gs, player) THEN "NotPlayerTurn"
    ELSE IF ~Board_is_stone_droppable(gs.board, bound_coordinates(side, position))
         THEN "InvalidStonePosition"
    ELSE "Ok"

-----------------------------------------------------------------------------
(* Bomb commit-reveal (mod.rs:400-447, 665-671).  The two digests are      *)
(* modelled as collision-free: a digest is the tagged preimage.            *)

blake2_256(bytes) == <<"blake2_256", bytes>>
BlakeTwo256_hash(bytes) == <<"BlakeTwo256", bytes>>

\* a variant of hash_coordinates that hashes the coordinates without the salt
hash_coordinates_saltless(coordinates, salt) ==
    LET hashed_coordinates == [hi |-> 0, b30 |-> coordinates.row, b31 |-> coordinates.col]
    IN  BlakeTwo256_hash(blake2_256(hashed_coordinates))

hash_coordinates(coordinates, salt) ==
    LET hashed_coordinates == [salt EXCEPT !.b30 = coordinates.row,
                                           !.b31 = coordinates.col]
    IN  BlakeTwo256_hash(blake2_256(hashed_coordinates))

\* a variant of retain_not that keeps nothing
retain_nothing(seq, x) == <<>>

\* Vec::retain(|hash| hash != &coordinate_hash)
retain_not(seq, x) == SelectSeq(seq, LAMBDA hash : hash # x)

\* a variant of place_bomb that stores a commitment without looking for it in
\* the pending list
place_bomb_unchecked(gs, player, coordinates, salt) ==
    LET can == can_place_bomb(gs, player)
    IN  IF can # "Ok" THEN Err(can, gs)
        ELSE LET index == player_index(gs, player)
                 coordinate_hash == hash_coordinates(coordinates, salt)
                 pushed == [gs EXCEPT !.bombs_placed[index] = Append(@, coordinate_hash)]
             IN  Ok([pushed EXCEPT !.next_player = next_player(pushed)])

place_bomb(gs, player, coordinates, salt) ==
    LET can == can_place_bomb(gs, player)
    IN  IF can # "Ok" THEN Err(can, gs)
        ELSE LET index == player_index(gs, player)
                 coordinate_hash == hash_coordinates(coordinates, salt)
             IN  IF contains(gs.bombs_placed[index], coordinate_hash)
                 THEN Err("InvalidBombCoordinates", gs)
                 ELSE IF Len(gs.bombs_placed[index]) >= BOMB_AMOUNT_PER_PLAYER
                 THEN Err("NoMoreBombsAvailable", gs)     \* try_push on a full BoundedVec
                 ELSE LET pushed == [gs EXCEPT !.bombs_placed[index] =
                                                    Append(@, coordinate_hash)]
                      IN  Ok([pushed EXCEPT !.next_player = next_player(pushed)])

\* a variant of detonate_bomb that does not look for the commitment
detonate_bomb_unrevealed(gs, player, coordinates, salt, power_level) ==
    IF ~is_participant(gs, player) THEN Panic
    ELSE LET index == player_index(gs, player)
             coordinate_hash == hash_coordinates(coordinates, salt)
             can == can_detonate_bomb(gs, player, power_level)
         IN  IF can # "Ok" THEN Err(can, gs)
             ELSE LET exploded == explode(power_level, gs, coordinates)
                  IN  IF exploded.res # "Ok" THEN Panic
                      ELSE LET paid == decrease_bomb_energy(power_level,
                                           exploded.state, player)
                               kept == [paid EXCEPT !.bombs_placed[index] =
                                           retain_not(@, coordinate_hash)]
                           IN  Ok([kept EXCEPT !.next_player = next_player(kept)])

\* a variant of detonate_bomb that explodes the cells before it asks
\* can_detonate_bomb
detonate_bomb_explode_first(gs, player, coordinates, salt, power_level) ==
    IF ~is_participant(gs, player) THEN Panic
    ELSE LET index == player_index(gs, player)
             coordinate_hash == hash_coordinates(coordinates, salt)
         IN  IF ~contains(gs.bombs_placed[index], coordinate_hash)
             THEN Err("InvalidBombCoordinates", gs)
             ELSE LET exploded == explode(power_level, gs, coordinates)
                  IN  IF exploded.res # "Ok" THEN Panic
                      ELSE LET can == can_detonate_bomb(gs, player, power_level)
                           IN  IF can # "Ok" THEN Err(can, exploded.state)
                               ELSE LET paid == decrease_bomb_energy(power_level,
                                                    exploded.state, player)
                                        kept == [paid EXCEPT !.bombs_placed[index] =
                                                    retain_not(@, coordinate_hash)]
                                    IN  Ok([kept EXCEPT !.next_player = next_player(kept)])

\* a variant of detonate_bomb that removes the commitment from the lists of
\* both players
detonate_bomb_everywhere(gs, player, coordinates, salt, power_level) ==
    IF ~is_participant(gs, player) THEN Panic
    ELSE LET index == player_index(gs, player)
             coordinate_hash == hash_coordinates(coordinates, salt)
         IN  IF ~contains(gs.bombs_placed[index], coordinate_hash)
             THEN Err("InvalidBombCoordinates", gs)
             ELSE LET can == can_detonate_bomb(gs, player, power_level)
                  IN  IF can # "Ok" THEN Err(can, gs)
                      ELSE LET exploded == explode(power_level, gs, coordinates)
                           IN  IF exploded.res # "Ok" THEN Panic
                               ELSE LET paid == decrease_bomb_energy(power_level,
                                                    exploded.state, player)
                                        kept == [paid EXCEPT !.bombs_placed =
                                                    [i \in DOMAIN @ |->
                                                        retain_not(@[i], coordinate_hash)]]
                                    IN  Ok([kept EXCEPT !.next_player = next_player(kept)])

\* a variant of detonate_bomb that looks for the commitment in the lists of
\* both players
detonate_bomb_any_list(gs, player, coordinates, salt, power_level) ==
    IF ~is_participant(gs, player) THEN Panic
    ELSE LET index == player_index(gs, player)
             coordinate_hash == hash_coordinates(coordinates, salt)
         IN  IF \A i \in DOMAIN gs.bombs_placed :
                    ~contains(gs.bombs_placed[i], coordinate_hash)
             THEN Err("InvalidBombCoordinates", gs)
             ELSE LET can == can_detonate_bomb(gs, player, power_level)
                  IN  IF can # "Ok" THEN Err(can, gs)
                      ELSE LET exploded == explode(power_level, gs, coordinates)
                           IN  IF exploded.res # "Ok" THEN Panic
                               ELSE LET paid == decrease_bomb_energy(power_level,
                                                    exploded.state, player)
                                        kept == [paid EXCEPT !.bombs_placed[index] =
                                                    retain_not(@, coordinate_hash)]
                                    IN  Ok([kept EXCEPT !.next_player = next_player(kept)])

detonate_bomb(gs, player, coordinates, salt, power_level) ==
    IF ~is_participant(gs, player) THEN Panic      \* player_index: expect()
    ELSE LET index == player_index(gs, player)
             coordinate_hash == hash_coordinates(coordinates, salt)
         IN  IF ~contains(gs.bombs_placed[index], coordinate_hash)
             THEN Err("InvalidBombCoordinates", gs)
             ELSE LET can == can_detonate_bomb(gs, player, power_level)
                  IN  IF can # "Ok" THEN Err(can, gs)
                      ELSE LET exploded == explode(power_level, gs, coordinates)
                           IN  IF exploded.res # "Ok" THEN Panic
                               ELSE LET paid == decrease_bomb_energy(power_level,
                                                    exploded.state, player)
                                        kept == [paid EXCEPT !.bombs_placed[index] =
                                                    retain_not(@, coordinate_hash)]
                                    IN  Ok([kept EXCEPT !.next_player = next_player(kept)])

-----------------------------------------------------------------------------
(* Game::drop_stone (mod.rs:450-633): one scanning loop per side.  A scan  *)
(* returns the updated board, or the error of its early return.            *)

Placed(board) == [res |-> "Ok", board |-> board]

\* a variant of saturating_sub that subtracts nothing
saturating_sub_nothing(a, b) == a

saturating_sub(a, b) == IF a - b < 0 THEN 0 ELSE a - b

\* Side::North (mod.rs:459-498): rows 0, 1, .. while row < BOARD_HEIGHT
RECURSIVE scan_north(_, _, _, _)
scan_north(board, position, index, row) ==
    IF ~(row < BOARD_HEIGHT) THEN Placed(board)
    ELSE LET at == Coordinates(row, position)
             cell == get_cell(board, at)
         IN  IF cell = Empty
             THEN IF is_opposite_cell(at, "North")
                  THEN Placed(update_cell(board, at, Stone(index)))
                  ELSE scan_north(board, position, index, row + 1)
             ELSE IF cell = Block
             THEN IF row > 0
                  THEN Placed(update_cell(board,
                            Coordinates(saturating_sub(at.row, 1), at.col), Stone(index)))
                  ELSE Err("InvalidStonePosition", board)
             ELSE IF row > 0
                  THEN Placed(update_cell(board,
                            Coordinates(saturating_sub(at.row, 1), at.col), Stone(index)))
                  ELSE Err("InvalidStonePosition", board)

\* Side::East (mod.rs:499-541): cols BOARD_WIDTH - 1, .., 0
RECURSIVE scan_east(_, _, _, _)
scan_east(board, position, index, col) ==
    LET at == Coordinates(position, col)
        cell == get_cell(board, at)
    IN  IF cell = Empty
        THEN IF is_opposite_cell(at, "East")
             THEN Placed(update_cell(board, at, Stone(index)))
             ELSE IF col = 0 THEN Placed(board)
                  ELSE scan_east(board, position, index, col - 1)
        ELSE IF cell = Block
        THEN IF col < BOARD_WIDTH - 1
             THEN Placed(update_cell(board, Coordinates(at.row, at.col + 1), Stone(index)))
             ELSE Err("InvalidStonePosition", board)
        ELSE IF col < BOARD_WIDTH - 1
             THEN Placed(update_cell(board, Coordinates(at.row, at.col + 1), Stone(index)))
             ELSE Err("InvalidStonePosition", board)

\* Side::South (mod.rs:542-585): rows BOARD_HEIGHT - 1, .., 0
RECURSIVE scan_south(_, _, _, _)
scan_south(board, position, index, row) ==
    LET at == Coordinates(row, position)
        cell == get_cell(board, at)
    IN  IF cell = Empty
        THEN IF is_opposite_cell(at, "South")
             THEN Placed(update_cell(board, at, Stone(index)))
             ELSE IF row = 0 THEN Placed(board)
                  ELSE scan_south(board, position, index, row - 1)
        ELSE IF cell = Block
        THEN IF row < BOARD_HEIGHT - 1
             THEN Placed(update_cell(board, Coordinates(at.row + 1, at.col), Stone(index)))
             ELSE Err("InvalidStonePosition", board)
        ELSE IF row < BOARD_HEIGHT - 1
             THEN Placed(update_cell(board, Coordinates(at.row + 1, at.col), Stone(index)))
             ELSE Err("InvalidStonePosition", board)

\* Side::West (mod.rs:586-625): cols 0, 1, .. while col < BOARD_WIDTH.  The
\* Stone arm tests col < BOARD_WIDTH - 1 (mod.rs:612) where the Block arm
\* tests col > 0 (mod.rs:600).
RECURSIVE scan_west(_, _, _, _)
scan_west(board, position, index, col) ==
    IF ~(col < BOARD_WIDTH) THEN Placed(board)
    ELSE LET at == Coordinates(position, col)
             cell == get_cell(board, at)
         IN  IF cell = Empty
             THEN IF is_opposite_cell(at, "West")
                  THEN Placed(update_cell(board, at, Stone(index)))
                  ELSE scan_west(board, position, index, col + 1)
             ELSE IF cell = Block
             THEN IF col > 0
                  THEN Placed(update_cell(board,
                            Coordinates(at.row, saturating_sub(at.col, 1)), Stone(index)))
                  ELSE Err("InvalidStonePosition", board)
             ELSE IF col < BOARD_WIDTH - 1
                  THEN Placed(update_cell(board,
                            Coordinates(at.row, saturating_sub(at.col, 1)), Stone(index)))
                  ELSE Err("InvalidStonePosition", board)

-----------------------------------------------------------------------------
(* Game::check_winner_player (mod.rs:635-663).  The break at mod.rs:655    *)
(* leaves the inner loop over col only: the loop over row goes on with the *)
(* counters kept.                                                          *)

is_square(board, row, col) ==
    LET cell == get_cell(board, Coordinates(row, col))
    IN  /\ cell[1] = "Stone"
        /\ cell = get_cell(board, Coordinates(row, col + 1))
        /\ cell = get_cell(board, Coordinates(row + 1, col))
        /\ cell = get_cell(board, Coordinates(row + 1, col + 1))

\* a variant of count_square that asks for four squares
count_square_at_four(players, acc, index) ==
    LET squares == [acc.squares EXCEPT ![index] = @ + 1]
    IN  IF squares[index] >= 4
        THEN [squares |-> squares, winner |-> Some(players[index]), break |-> TRUE]
        ELSE [squares |-> squares, winner |-> acc.winner, break |-> FALSE]

\* a variant of count_square that declares the other player
count_square_for_other(players, acc, index) ==
    LET squares == [acc.squares EXCEPT ![index] = @ + 1]
    IN  IF squares[index] >= 3
        THEN [squares |-> squares,
              winner |-> Some(players[(index + 1) % NUM_OF_PLAYERS]), break |-> TRUE]
        ELSE [squares |-> squares, winner |-> acc.winner, break |-> FALSE]

\* mod.rs:651-656: count the square for its owner; at three the owner is set
\* as winner and the inner loop breaks
count_square(players, acc, index) ==
    LET squares == [acc.squares EXCEPT ![index] = @ + 1]
    IN  IF squares[index] >= 3
        THEN [squares |-> squares, winner |-> Some(players[index]), break |-> TRUE]
        ELSE [squares |-> squares, winner |-> acc.winner, break |-> FALSE]

\* for col in 0..BOARD_WIDTH - 1, on acc = [squares, winner, break]
RECURSIVE check_winner_cols(_, _, _, _, _)
check_winner_cols(board, players, row, col, acc) ==
    IF ~(col < BOARD_WIDTH - 1) THEN acc
    ELSE IF is_square(board, row, col)
    THEN LET counted == count_square(players, acc,
                                     get_cell(board, Coordinates(row, col))[2])
         IN  IF counted.break THEN counted
             ELSE check_winner_cols(board, players, row, col + 1, counted)
    ELSE check_winner_cols(board, players, row, col + 1, acc)

\* for row in 0..BOARD_HEIGHT - 1
RECURSIVE check_winner_rows(_, _, _, _)
check_winner_rows(board, players, row, acc) ==
    IF ~(row < BOARD_HEIGHT - 1) THEN acc
    ELSE LET scanned == check_winner_cols(board, players, row, 0,
                                          [acc EXCEPT !.break = FALSE])
         IN  Strict(scanned, check_winner_rows(board, players, row + 1, scanned))

\* a variant of check_winner_player that returns before the scan
check_winner_player_skipped(gs) == gs

\* a variant of check_winner_player that names next_player, which drop_stone
\* has advanced by then, when the scan finds three windows
check_winner_player_next(gs) ==
    IF gs.winner # None THEN gs
    ELSE LET scanned == check_winner_rows(gs.board, gs.players, 0,
                            [squares |-> [i \in 0..(NUM_OF_PLAYERS - 1) |-> 0],
                             winner |-> gs.winner, break |-> FALSE])
         IN  [gs EXCEPT !.winner = IF scanned.winner # None
                                   THEN Some(gs.next_player) ELSE None]

check_winner_player(gs) ==
    IF gs.winner # None THEN gs
    ELSE LET scanned == check_winner_rows(gs.board, gs.players, 0,
                            [squares |-> [i \in 0..(NUM_OF_PLAYERS - 1) |-> 0],
                             winner |-> gs.winner, break |-> FALSE])
         IN  [gs EXCEPT !.winner = scanned.winner]

\* a variant of LastMove_new that records the side without the position
LastMove_new_unpositioned(player, side, position) ==
    [player |-> player, side |-> side, position |-> 0]

LastMove_new(player, side, position) ==
    [player |-> player, side |-> side, position |-> position]

scan_side(board, side, position, index) ==
    CASE side = "North" -> scan_north(board, position, index, 0)
      [] side = "East"  -> scan_east(board, position, index, BOARD_WIDTH - 1)
      [] side = "South" -> scan_south(board, position, index, BOARD_HEIGHT - 1)
      [] side = "West"  -> scan_west(board, position, index, 0)

drop_stone(gs, player, side, position) ==
    LET can == can_drop_stone(gs, side, position, player)
    IN  IF can # "Ok" THEN Err(can, gs)
        ELSE IF ~is_participant(gs, player) THEN Panic    \* player_index: expect()
        ELSE LET scanned == scan_side(gs.board, side, position, player_index(gs, player))
             IN  IF scanned.res # "Ok" THEN Err(scanned.res, [gs EXCEPT !.board = scanned.local])
                 ELSE LET moved == [gs EXCEPT
                                      !.board = scanned.board,
                                      !.last_move = Some(LastMove_new(player, side, position))]
                          turned == [moved EXCEPT !.next_player = next_player(moved)]
                      IN  Ok(check_winner_player(turned))

-----------------------------------------------------------------------------
(* TurnBasedGame for Game (types.rs:88-147).                               *)

Turn_PlaceBomb(coordinates, salt) ==
    [kind |-> "PlaceBomb", coordinates |-> coordinates, salt |-> salt]
Turn_DetonateBomb(coordinates, salt, power_level) ==
    [kind |-> "DetonateBomb", coordinates |-> coordinates, salt |-> salt,
     power_level |-> power_level]
Turn_DropStone(side, position) ==
    [kind |-> "DropStone", side |-> side, position |-> position]

\* a variant of init that takes the first two of any longer slice
init_lenient(players, seed) ==
    IF Len(players) >= 2 THEN Some(new_game(players[1], players[2], seed)) ELSE None

init(players, seed) ==
    IF Len(players) = 2 THEN Some(new_game(players[1], players[2], seed)) ELSE None

get_last_player(state) ==
    IF state.last_move # None THEN state.last_move[1].player ELSE state.next_player

get_next_player(state) == state.next_player

\* the engine call a turn is routed to
dispatch(player, state, t) ==
    CASE t.kind = "PlaceBomb"    -> place_bomb(state, player, t.coordinates, t.salt)
      [] t.kind = "DetonateBomb" -> detonate_bomb(state, player, t.coordinates, t.salt,
                                                  t.power_level)
      [] t.kind = "DropStone"    -> drop_stone(state, player, t.side, t.position)

\* Result::ok(): the error kind is dropped.  [res |-> "Return", value |-> an
\* Option<State>], or Panic when the engine call panics
Return(value) == [res |-> "Return", value |-> value]

play_turn(player, state, t) ==
    LET r == dispatch(player, state, t)
    IN  IF r.res = "Ok" THEN Return(Some(r.state))
        ELSE IF r.res = "Panic" THEN Panic
        ELSE Return(None)

\* a variant of abort that keeps the winner of a finished game
abort_unless_finished(state, winner) ==
    IF state.winner # None THEN state ELSE [state EXCEPT !.winner = Some(winner)]

\* a variant of abort that also hands the turn on
abort_passing_turn(state, winner) ==
    [state EXCEPT !.winner = Some(winner), !.next_player = next_player(state)]

abort(state, winner) == [state EXCEPT !.winner = Some(winner)]

is_finished(state) ==
    IF state.winner # None THEN [finished |-> "Winner", winner |-> state.winner[1]]
    ELSE [finished |-> "No"]

seed_of(state) == Some(state.seed)

-----------------------------------------------------------------------------
(* The inputs the model draws.                                             *)

Alice == "Alice"
Bob == "Bob"
Charlie == "Charlie"          \* a handle that is not a player of the game
Players == {Alice, Bob}
Callers == {Alice, Bob, Charlie}

\* Some(7357) is TEST_SEED of src/tests.rs; None selects INITIAL_SEED
Seeds == {None, Some(7357)}

Salt(hi, b30, b31) == [hi |-> hi, b30 |-> b30, b31 |-> b31]

\* The bombs a caller may name: an inner cell next to the stones and the Block
\* of the opening and a corner cell, under two salts that differ in their first
\* bytes, and the inner cell under a salt that differs from the first in
\* byte 31 only.
BombInputs ==
    {<<Coordinates(8, 8), Salt(17, 0, 0)>>, <<Coordinates(9, 9), Salt(17, 0, 0)>>,
     <<Coordinates(8, 8), Salt(18, 0, 0)>>, <<Coordinates(8, 8), Salt(17, 0, 1)>>}

DropInputs ==
    {<<"North", 8>>, <<"North", 9>>, <<"North", 7>>, <<"West", 6>>, <<"East", 3>>,
     <<"South", 7>>}

\* A recorded opening: Alice stacks columns 8 and 9 from the North while Bob
\* commits three bombs and then stacks column 4.  On the board of INITIAL_SEED
\* Alice's last stone completes a 2x4 block; on the board of TEST_SEED the
\* Block at (3, 8) stops column 8 after three stones, Alice's fourth stone
\* there is rejected and the game stays open.
Opening ==
    <<[player |-> Alice, turn |-> Turn_DropStone("North", 8)],
      [player |-> Bob,   turn |-> Turn_PlaceBomb(Coordinates(8, 8), Salt(17, 0, 0))],
      [player |-> Alice, turn |-> Turn_DropStone("North", 9)],
      [player |-> Bob,   turn |-> Turn_PlaceBomb(Coordinates(9, 9), Salt(17, 0, 0))],
      [player |-> Alice, turn |-> Turn_DropStone("North", 8)],
      [player |-> Bob,   turn |-> Turn_PlaceBomb(Coordinates(8, 8), Salt(18, 0, 0))],
      [player |-> Alice, turn |-> Turn_DropStone("North", 9)],
      [player |-> Bob,   turn |-> Turn_DropStone("North", 4)],
      [player |-> Alice, turn |-> Turn_DropStone("North", 8)],
      [player |-> Bob,   turn |-> Turn_DropStone("North", 4)],
      [player |-> Alice, turn |-> Turn_DropStone("North", 9)],
      [player |-> Bob,   turn |-> Turn_DropStone("North", 4)],
      [player |-> Alice, turn |-> Turn_DropStone("North", 8)],
      [player |-> Bob,   turn |-> Turn_DropStone("North", 4)],
      [player |-> Alice, turn |-> Turn_DropStone("North", 9)]>>

\* the lengths of the prefixes of Opening the model starts from
OpeningCuts == {0, 13, 14, 15}

\* The position after one turn of the opening: the turn goes through
\* play_turn, and a rejected turn leaves the state as it was.
ReplayTurn(at, played_turn) ==
    LET played == play_turn(played_turn.player, at.state, played_turn.turn)
    IN  IF played.res = "Return" /\ played.value # None
        THEN [state |-> played.value[1], last_mover |-> Some(played_turn.player)]
        ELSE at

\* The position after turns i, i + 1, .., n of the opening
RECURSIVE Replay(_, _, _, _)
Replay(at, opening, i, n) ==
    IF i > n THEN at
    ELSE LET after == ReplayTurn(at, opening[i])
         IN  Strict(after, Replay(after, opening, i + 1, n))

-----------------------------------------------------------------------------
(* The state machine: an orchestrator holding one GameState and calling    *)
(* the engine on it.  A call that returns an error or panics leaves the    *)
(* held state as it was.                                                   *)

Init ==
    /\ \E seed \in Seeds, n \in OpeningCuts :
         LET start == Replay([state |-> new_game(Alice, Bob, seed), last_mover |-> None],
                             Opening, 1, n)
         IN  /\ game_state = start.state
             /\ last_mover = start.last_mover
    /\ turn = [op |-> "new_game"]
    /\ result = "Ok"
    /\ moves = 0

Call(t, r) ==
    /\ r.res = "Ok" => moves < MaxMoves
    /\ turn' = t
    /\ result' = r.res
    /\ game_state' = IF r.res = "Ok" THEN r.state ELSE game_state
    /\ moves' = IF r.res = "Ok" THEN moves + 1 ELSE moves
    /\ last_mover' = IF r.res = "Ok" THEN Some(t.player) ELSE last_mover

PlaceBomb ==
    \E player \in Callers, bomb \in BombInputs :
        Call([op |-> "place_bomb", player |-> player, coordinates |-> bomb[1],
              salt |-> bomb[2]],
             place_bomb(game_state, player, bomb[1], bomb[2]))

DetonateBomb ==
    \E player \in Callers, bomb \in BombInputs, power_level \in PowerLevels :
        Call([op |-> "detonate_bomb", player |-> player, coordinates |-> bomb[1],
              salt |-> bomb[2], power_level |-> power_level],
             detonate_bomb(game_state, player, bomb[1], bomb[2], power_level))

DropStone ==
    \E player \in Callers, drop \in DropInputs :
        Call([op |-> "drop_stone", player |-> player, side |-> drop[1],
              position |-> drop[2]],
             drop_stone(game_state, player, drop[1], drop[2]))

Abort ==
    \E winner \in Callers :
        /\ moves < MaxMoves
        /\ game_state' = abort(game_state, winner)
        /\ turn' = [op |-> "abort", winner |-> winner]
        /\ result' = "Ok"
        /\ moves' = moves + 1
        /\ UNCHANGED last_mover

Next == PlaceBomb \/ DetonateBomb \/ DropStone \/ Abort

Spec == Init /\ [][Next]_vars

-----------------------------------------------------------------------------
(* Vocabulary of the properties.  In a step of Spec, turn' and result'     *)
(* describe the call the step makes, game_state is the state the call is   *)
(* made on and game_state' the state held after it.                        *)

MoveOps == {"place_bomb", "detonate_bomb", "drop_stone"}

PlayersOf(gs) == {gs.players[i] : i \in 0..(NUM_OF_PLAYERS - 1)}

OtherPlayer(gs, player) == CHOOSE p \in PlayersOf(gs) : p # player

IndexOf(gs, player) == CHOOSE i \in 0..(NUM_OF_PLAYERS - 1) : gs.players[i] = player

Pending(gs, player) == gs.bombs_placed[IndexOf(gs, player)]

\* the step calls a move and the engine accepts it
AcceptedMove == turn'.op \in MoveOps /\ result' = "Ok"

\* the step calls a move for the participant who is not next to move
OutOfTurnMove ==
    /\ turn'.op \in MoveOps
    /\ turn'.player \in PlayersOf(game_state)
    /\ turn'.player # game_state.next_player

\* the player holds the commitment of the coordinates under the salt
HoldsCommitment(gs, player, coordinates, salt) ==
    \E i \in 1..Len(Pending(gs, player)) :
        Pending(gs, player)[i] = hash_coordinates(coordinates, salt)

\* the call of a step as a Turn of the adapter
AsTurn(t) ==
    CASE t.op = "place_bomb"    -> Turn_PlaceBomb(t.coordinates, t.salt)
      [] t.op = "detonate_bomb" -> Turn_DetonateBomb(t.coordinates, t.salt, t.power_level)
      [] t.op = "drop_stone"    -> Turn_DropStone(t.side, t.position)

\* the top-left corners of the 2x2 windows whose four cells are stones of the
\* player with the index
OwnedWindows(board, index) ==
    {w \in (0..(BOARD_HEIGHT - 2)) \X (0..(BOARD_WIDTH - 2)) :
        \A dr \in 0..1, dc \in 0..1 : board[w[1] + dr][w[2] + dc] = Stone(index)}

Disjoint(w1, w2) ==
    \/ w1[1] + 1 < w2[1] \/ w2[1] + 1 < w1[1]
    \/ w1[2] + 1 < w2[2] \/ w2[2] + 1 < w1[2]

ThreeDisjointWindows(board, index) ==
    \E w1, w2, w3 \in OwnedWindows(board, index) :
        Disjoint(w1, w2) /\ Disjoint(w1, w3) /\ Disjoint(w2, w3)

\* the cells of the line a drop scans, from the entry cell to the far wall
Line(side, position) ==
    [k \in 1..BOARD_WIDTH |->
        CASE side = "North" -> Coordinates(k - 1, position)
          [] side = "South" -> Coordinates(BOARD_HEIGHT - k, position)
          [] side = "West"  -> Coordinates(position, k - 1)
          [] side = "East"  -> Coordinates(position, BOARD_WIDTH - k)]

\* the index in the line of the first cell that is not Empty, or one past
\* the far wall
FirstObstruction(board, side, position) ==
    LET line == Line(side, position)
        obstructed == {k \in 1..BOARD_WIDTH : get_cell(board, line[k]) # Empty}
    IN  IF obstructed = {} THEN BOARD_WIDTH + 1
        ELSE CHOOSE k \in obstructed : \A j \in obstructed : k <= j

-----------------------------------------------------------------------------
(* C1: in every state next_player is one of the two players, every         *)
(* accepted place_bomb, detonate_bomb and drop_stone is made by            *)
(* next_player and switches next_player to the other player, and the       *)
(* player of an accepted move is never the player of the accepted move     *)
(* before it.                                                              *)
C1_TurnsAlternate ==
    [][/\ game_state.next_player \in PlayersOf(game_state)
       /\ game_state'.next_player \in PlayersOf(game_state')
       /\ AcceptedMove =>
            /\ turn'.player = game_state.next_player
            /\ game_state'.next_player = OtherPlayer(game_state, turn'.player)
            /\ last_mover # Some(turn'.player)]_vars

\* a detonation is accepted from a player who follows the other player's move
C1_Witness ==
    /\ moves = 1 /\ result = "Ok" /\ turn.op = "detonate_bomb"
    /\ last_mover = Some(turn.player)
    /\ game_state.next_player = OtherPlayer(game_state, turn.player)

(* C2 as stated: a move of any kind by the participant who is not          *)
(* next_player fails with NotPlayerTurn in any state and leaves the state  *)
(* unchanged.                                                              *)
C2_OutOfTurnIsNotPlayerTurn ==
    [][OutOfTurnMove => result' = "NotPlayerTurn" /\ game_state' = game_state]_vars

(* C2: a move of any kind by the participant who is not next_player always *)
(* fails and leaves the state unchanged; the error is                      *)
(* InvalidBombCoordinates for a detonate_bomb whose coordinates and salt   *)
(* match no pending commitment of the mover, else GameAlreadyFinished when *)
(* the winner is set, else NotPlayerTurn.                                  *)
C2_OutOfTurnIsRejected ==
    [][OutOfTurnMove =>
        /\ game_state' = game_state
        /\ result' =
             IF /\ turn'.op = "detonate_bomb"
                /\ ~HoldsCommitment(game_state, turn'.player, turn'.coordinates, turn'.salt)
             THEN "InvalidBombCoordinates"
             ELSE IF game_state.winner # None THEN "GameAlreadyFinished"
             ELSE "NotPlayerTurn"]_vars

\* the holder of a commitment detonates it out of turn in an unfinished game
C2_Witness ==
    /\ turn.op = "detonate_bomb" /\ result = "NotPlayerTurn"
    /\ turn.player \in PlayersOf(game_state)
    /\ turn.player # game_state.next_player
    /\ HoldsCommitment(game_state, turn.player, turn.coordinates, turn.salt)
    /\ game_state.winner = None

(* C3: once the winner is set, every place_bomb, detonate_bomb and         *)
(* drop_stone by either player is rejected with an error, play_turn        *)
(* returns None for it and the state stays unchanged, while abort is still *)
(* accepted and sets the winner it names.                                  *)
C3_FinishedGameRejectsMoves ==
    [][game_state.winner # None =>
        /\ (turn'.op \in MoveOps /\ turn'.player \in PlayersOf(game_state)) =>
             /\ result' \in GameErrors
             /\ game_state' = game_state
             /\ play_turn(turn'.player, game_state, AsTurn(turn')) = Return(None)
        /\ turn'.op = "abort" =>
             /\ result' = "Ok"
             /\ game_state'.winner = Some(turn'.winner)]_vars

\* the next player drops a stone on a free column of a finished game
C3_Witness ==
    /\ game_state.winner # None
    /\ turn.op = "drop_stone" /\ turn.player = game_state.next_player
    /\ turn.side = "North" /\ turn.position = 7
    /\ result = "GameAlreadyFinished"

(* C4 as stated: once the winner is Some(p) it remains Some(p) after every *)
(* operation, abort included.                                              *)
C4_WinnerNeverChanges ==
    [][game_state.winner # None => game_state'.winner = game_state.winner]_vars

(* C4: once the winner is set it is never cleared; place_bomb,             *)
(* detonate_bomb and drop_stone leave it as it is, and abort replaces it   *)
(* with the winner abort is given.                                         *)
C4_WinnerChangesOnlyByAbort ==
    [][game_state.winner # None =>
        /\ game_state'.winner # None
        /\ turn'.op \in MoveOps => game_state'.winner = game_state.winner
        /\ turn'.op = "abort" => game_state'.winner = Some(turn'.winner)]_vars

\* abort names Bob on the game Alice has won with three squares
C4_Witness ==
    /\ turn.op = "abort" /\ turn.winner = Bob
    /\ game_state.winner = Some(Bob)
    /\ last_mover = Some(Alice)
    /\ Cardinality(OwnedWindows(game_state.board, IndexOf(game_state, Alice))) >= 3

(* C5: an accepted drop_stone sets the winner in that transition if and    *)
(* only if, on the resulting board, some player owns at least three 2x2    *)
(* windows made of that player's stones only; otherwise the winner stays   *)
(* None.                                                                   *)
C5_WinnerIffThreeWindows ==
    [][(turn'.op = "drop_stone" /\ result' = "Ok") =>
        (game_state'.winner # None <=>
            \E i \in 0..(NUM_OF_PLAYERS - 1) :
                Cardinality(OwnedWindows(game_state'.board, i)) >= 3)]_vars

\* a drop gives its player a third window and the winner is that player
C5_Witness ==
    /\ moves = 1 /\ turn.op = "drop_stone" /\ result = "Ok"
    /\ game_state.winner = Some(turn.player)
    /\ Cardinality(OwnedWindows(game_state.board, IndexOf(game_state, turn.player))) = 3

(* C6 as stated: a drop_stone declares a winner only if the winner owns    *)
(* three pairwise disjoint 2x2 squares of own stones.                      *)
C6_WinnerHasThreeDisjointSquares ==
    [][(turn'.op = "drop_stone" /\ result' = "Ok" /\ game_state'.winner # None) =>
        ThreeDisjointWindows(game_state'.board,
                             IndexOf(game_state', game_state'.winner[1]))]_vars

(* C6: a drop_stone declares a winner only if the winner owns at least     *)
(* three 2x2 windows of own stones, which may overlap.                     *)
C6_WinnerHasThreeWindows ==
    [][(turn'.op = "drop_stone" /\ result' = "Ok" /\ game_state'.winner # None) =>
        Cardinality(OwnedWindows(game_state'.board,
                                 IndexOf(game_state', game_state'.winner[1]))) >= 3]_vars

\* the winner of a drop owns three windows, no three of them disjoint
C6_Witness ==
    /\ moves = 1 /\ turn.op = "drop_stone" /\ result = "Ok"
    /\ game_state.winner # None
    /\ ~ThreeDisjointWindows(game_state.board,
                             IndexOf(game_state, game_state.winner[1]))

(* C8 as stated: a drop_stone by the next player in an unfinished game is  *)
(* accepted if and only if the entry cell of its side and position is      *)
(* Empty, and is rejected with InvalidStonePosition otherwise.             *)
C8_AcceptedIffEntryCellEmpty ==
    [][(/\ turn'.op = "drop_stone"
        /\ turn'.player = game_state.next_player
        /\ game_state.winner = None) =>
        IF get_cell(game_state.board, Line(turn'.side, turn'.position)[1]) = Empty
        THEN result' = "Ok"
        ELSE result' = "InvalidStonePosition"]_vars

(* C9: an accepted drop_stone places the stone of its player in the cell   *)
(* just before the first cell that is not Empty on the line from the entry *)
(* side to the far wall, or in the far boundary cell when the line is      *)
(* Empty; that cell was Empty.                                             *)
C9_StoneLandsBeforeFirstObstruction ==
    [][(turn'.op = "drop_stone" /\ result' = "Ok") =>
        LET k == FirstObstruction(game_state.board, turn'.side, turn'.position)
            landing == Line(turn'.side, turn'.position)[k - 1]
        IN  /\ k > 1
            /\ get_cell(game_state.board, landing) = Empty
            /\ get_cell(game_state'.board, landing) =
                   Stone(IndexOf(game_state, turn'.player))]_vars

\* a stone dropped from the South on column 7 stops below the Block at (7, 7)
C9_Witness ==
    /\ moves = 1 /\ turn.op = "drop_stone" /\ result = "Ok"
    /\ turn.side = "South" /\ turn.position = 7
    /\ get_cell(game_state.board, Coordinates(7, 7)) = Block
    /\ get_cell(game_state.board, Coordinates(8, 7)) =
           Stone(IndexOf(game_state, turn.player))

(* C10 as stated: every pending commitment list has at most 3 entries, an  *)
(* accepted place_bomb adds exactly one to the placer's, and a place_bomb  *)
(* by the next player holding 3 fails with NoMoreBombsAvailable, the count *)
(* staying 3.                                                              *)
C10_FourthBombIsNoMoreBombsAvailable ==
    [][/\ \A p \in PlayersOf(game_state) : Len(Pending(game_state, p)) <= BOMB_AMOUNT_PER_PLAYER
       /\ \A p \in PlayersOf(game_state') : Len(Pending(game_state', p)) <= BOMB_AMOUNT_PER_PLAYER
       /\ (turn'.op = "place_bomb" /\ result' = "Ok") =>
            Len(Pending(game_state', turn'.player)) =
                Len(Pending(game_state, turn'.player)) + 1
       /\ (/\ turn'.op = "place_bomb"
           /\ turn'.player = game_state.next_player
           /\ Len(Pending(game_state, turn'.player)) = BOMB_AMOUNT_PER_PLAYER) =>
            /\ result' = "NoMoreBombsAvailable"
            /\ Len(Pending(game_state', turn'.player)) = BOMB_AMOUNT_PER_PLAYER]_vars

(* C10: every pending commitment list has at most 3 entries, an accepted   *)
(* place_bomb adds exactly one to the placer's, and in an unfinished game  *)
(* a place_bomb by the next player holding 3 fails with                    *)
(* NoMoreBombsAvailable, the count staying 3; in a finished game it fails  *)
(* with GameAlreadyFinished.                                               *)
C10_PendingBombsBounded ==
    [][/\ \A p \in PlayersOf(game_state) : Len(Pending(game_state, p)) <= BOMB_AMOUNT_PER_PLAYER
       /\ \A p \in PlayersOf(game_state') : Len(Pending(game_state', p)) <= BOMB_AMOUNT_PER_PLAYER
       /\ (turn'.op = "place_bomb" /\ result' = "Ok") =>
            Len(Pending(game_state', turn'.player)) =
                Len(Pending(game_state, turn'.player)) + 1
       /\ (/\ turn'.op = "place_bomb"
           /\ turn'.player = game_state.next_player
           /\ Len(Pending(game_state, turn'.player)) = BOMB_AMOUNT_PER_PLAYER) =>
            /\ result' = IF game_state.winner = None THEN "NoMoreBombsAvailable"
                         ELSE "GameAlreadyFinished"
            /\ Len(Pending(game_state', turn'.player)) = BOMB_AMOUNT_PER_PLAYER]_vars

\* the next player, holding three commitments, places a bomb in an unfinished game
C10_Witness ==
    /\ turn.op = "place_bomb" /\ result = "NoMoreBombsAvailable"
    /\ turn.player = game_state.next_player
    /\ Len(Pending(game_state, turn.player)) = BOMB_AMOUNT_PER_PLAYER
    /\ game_state.winner = None

-----------------------------------------------------------------------------
(* The same state machine started in the middle of a bomb exchange.        *)

\* A recorded opening: Alice stacks columns 8 and 9 from the North while Bob
\* commits two bombs at (8, 8) and detonates the first at level Three, which
\* leaves him an energy of 2 and one pending commitment.
BombOpening ==
    <<[player |-> Alice, turn |-> Turn_DropStone("North", 8)],
      [player |-> Bob,   turn |-> Turn_PlaceBomb(Coordinates(8, 8), Salt(17, 0, 0))],
      [player |-> Alice, turn |-> Turn_DropStone("North", 9)],
      [player |-> Bob,   turn |-> Turn_PlaceBomb(Coordinates(8, 8), Salt(18, 0, 0))],
      [player |-> Alice, turn |-> Turn_DropStone("North", 8)],
      [player |-> Bob,   turn |-> Turn_DetonateBomb(Coordinates(8, 8), Salt(17, 0, 0),
                                                    "Three")],
      [player |-> Alice, turn |-> Turn_DropStone("North", 9)]>>

\* the lengths of the prefixes of BombOpening the model starts from
BombOpeningCuts == {5, 6, 7}

InitBombs ==
    /\ \E seed \in Seeds, n \in BombOpeningCuts :
         LET start == Replay([state |-> new_game(Alice, Bob, seed), last_mover |-> None],
                             BombOpening, 1, n)
         IN  /\ game_state = start.state
             /\ last_mover = start.last_mover
    /\ turn = [op |-> "new_game"]
    /\ result = "Ok"
    /\ moves = 0

SpecBombs == InitBombs /\ [][Next]_vars

-----------------------------------------------------------------------------
(* Vocabulary of the bomb properties.                                      *)

\* the commitment of a coordinate under a salt: the two digests of the salt
\* with its bytes 30 and 31 replaced by the row and the column
Commitment(coordinates, salt) ==
    <<"BlakeTwo256", <<"blake2_256", [hi |-> salt.hi, b30 |-> coordinates.row,
                                      b31 |-> coordinates.col]>>>>

Committed(gs, player, coordinates, salt) ==
    \E i \in 1..Len(Pending(gs, player)) :
        Pending(gs, player)[i] = Commitment(coordinates, salt)

\* the step calls detonate_bomb for a participant who has committed the
\* bomb b and no other bomb matching the coordinates and salt of the call
DetonatesBeside(b) ==
    /\ turn'.op = "detonate_bomb"
    /\ turn'.player \in PlayersOf(game_state)
    /\ Committed(game_state, turn'.player, b[1], b[2])
    /\ \A i \in 1..Len(Pending(game_state, turn'.player)) :
           Pending(game_state, turn'.player)[i] # Commitment(b[1], b[2])
               => Pending(game_state, turn'.player)[i] #
                      Commitment(turn'.coordinates, turn'.salt)

\* an accepted place_bomb stores the commitment of its coordinates and salt
PlaceStoresCommitment ==
    (turn'.op = "place_bomb" /\ result' = "Ok") =>
        Pending(game_state', turn'.player) =
            Append(Pending(game_state, turn'.player),
                   Commitment(turn'.coordinates, turn'.salt))

(* C11 as stated: after place_bomb(c, s), a detonate_bomb by the same      *)
(* player with c and any salt different from s, no other commitment        *)
(* matching, is rejected with InvalidBombCoordinates; the commitment is    *)
(* the double hash of the salt with bytes 30 and 31 overwritten.           *)
C11_WrongSaltIsRejected ==
    [][/\ PlaceStoresCommitment
       /\ \A b \in BombInputs :
            (DetonatesBeside(b) /\ b[1] = turn'.coordinates /\ b[2] # turn'.salt)
                => result' = "InvalidBombCoordinates"]_vars

(* C11: after place_bomb(c, s), a detonate_bomb by the same player with c  *)
(* and a salt that differs from s in some byte other than bytes 30 and 31, *)
(* no other commitment matching, is rejected with InvalidBombCoordinates   *)
(* and the state is unchanged; the commitment is the double hash of the    *)
(* salt with bytes 30 and 31 overwritten, so a salt that differs from s in *)
(* bytes 30 and 31 only matches the commitment of s.                       *)
C11_SaltOutsideSpliceIsRejected ==
    [][/\ PlaceStoresCommitment
       /\ \A b \in BombInputs :
            (DetonatesBeside(b) /\ b[1] = turn'.coordinates) =>
                IF b[2].hi # turn'.salt.hi
                THEN result' = "InvalidBombCoordinates" /\ game_state' = game_state
                ELSE result' # "InvalidBombCoordinates"]_vars

\* Bob, holding the commitment of (8, 8) under salt 18 only, detonates
\* (8, 8) under salt 17
C11_Witness ==
    /\ turn.op = "detonate_bomb" /\ result = "InvalidBombCoordinates"
    /\ turn.player = Bob /\ turn.coordinates = Coordinates(8, 8)
    /\ turn.salt = Salt(17, 0, 0)
    /\ Pending(game_state, Bob) = <<Commitment(Coordinates(8, 8), Salt(18, 0, 0))>>

(* C12: after place_bomb(c, s), a detonate_bomb by the same player with    *)
(* the salt s and a coordinate different from c that is not itself         *)
(* committed is rejected with InvalidBombCoordinates and the state is      *)
(* unchanged.                                                              *)
C12_WrongCoordinatesAreRejected ==
    [][\A b \in BombInputs :
        (/\ DetonatesBeside(b) /\ b[2] = turn'.salt /\ b[1] # turn'.coordinates
         /\ ~Committed(game_state, turn'.player, turn'.coordinates, turn'.salt))
            => result' = "InvalidBombCoordinates" /\ game_state' = game_state]_vars

\* Bob, holding the commitment of (8, 8) under salt 17, detonates (9, 9)
\* under salt 17
C12_Witness ==
    /\ turn.op = "detonate_bomb" /\ result = "InvalidBombCoordinates"
    /\ turn.player = Bob /\ turn.coordinates = Coordinates(9, 9)
    /\ turn.salt = Salt(17, 0, 0)
    /\ Committed(game_state, Bob, Coordinates(8, 8), Salt(17, 0, 0))
    /\ ~Committed(game_state, Bob, Coordinates(9, 9), Salt(17, 0, 0))

\* the step calls place_bomb for the next player with coordinates and salt
\* whose commitment is in that player's pending list
PlacesDuplicate ==
    /\ turn'.op = "place_bomb"
    /\ turn'.player = game_state.next_player
    /\ Committed(game_state, turn'.player, turn'.coordinates, turn'.salt)

NoDuplicates(gs) ==
    \A p \in PlayersOf(gs) : \A i, j \in 1..Len(Pending(gs, p)) :
        Pending(gs, p)[i] = Pending(gs, p)[j] => i = j

(* C13 as stated: a place_bomb by the next player whose coordinates and    *)
(* salt hash to a commitment already in that player's pending list is      *)
(* rejected with InvalidBombCoordinates, the list unchanged; no pending    *)
(* list holds a commitment twice.                                          *)
C13_DuplicateIsInvalidBombCoordinates ==
    [][/\ NoDuplicates(game_state) /\ NoDuplicates(game_state')
       /\ PlacesDuplicate =>
            /\ result' = "InvalidBombCoordinates"
            /\ game_state'.bombs_placed = game_state.bombs_placed]_vars

(* C13: a place_bomb by the next player whose coordinates and salt hash to *)
(* a commitment already in that player's pending list is rejected, the     *)
(* list unchanged: with GameAlreadyFinished in a finished game, else with  *)
(* NoMoreBombsAvailable when the list holds 3 commitments, else with       *)
(* InvalidBombCoordinates; no pending list holds a commitment twice.       *)
C13_DuplicateIsRejected ==
    [][/\ NoDuplicates(game_state) /\ NoDuplicates(game_state')
       /\ PlacesDuplicate =>
            /\ result' =
                 IF game_state.winner # None THEN "GameAlreadyFinished"
                 ELSE IF Len(Pending(game_state, turn'.player)) >= BOMB_AMOUNT_PER_PLAYER
                 THEN "NoMoreBombsAvailable"
                 ELSE "InvalidBombCoordinates"
            /\ game_state'.bombs_placed = game_state.bombs_placed]_vars

\* the next player, holding fewer than three commitments, places one of them
\* again
C13_Witness ==
    /\ turn.op = "place_bomb" /\ result = "InvalidBombCoordinates"
    /\ turn.player = game_state.next_player
    /\ Committed(game_state, turn.player, turn.coordinates, turn.salt)
    /\ Len(Pending(game_state, turn.player)) < BOMB_AMOUNT_PER_PLAYER

Energy(gs, player) == gs.bomb_energy[IndexOf(gs, player)].energy

Cost(power_level) ==
    CASE power_level = "One" -> 1 [] power_level = "Two" -> 2 [] power_level = "Three" -> 3

Abs(n) == IF n < 0 THEN -n ELSE n

\* the cell lies in the blast of the level around the epicenter
InBlast(power_level, epicenter, row, col) ==
    LET dr == Abs(row - epicenter.row)
        dc == Abs(col - epicenter.col)
    IN  CASE power_level = "One"   -> dr = 0 /\ dc = 0
          [] power_level = "Two"   -> dr + dc <= 1
          [] power_level = "Three" -> dr <= 1 /\ dc <= 1

(* C14: every accepted detonate_bomb removes from the mover's pending list *)
(* exactly one commitment, the one of the revealed coordinates and salt,   *)
(* and keeps the others in their order; the opponent's list is unchanged.  *)
C14_DetonationRemovesOneCommitment ==
    [][(turn'.op = "detonate_bomb" /\ result' = "Ok") =>
        LET before == Pending(game_state, turn'.player)
            after == Pending(game_state', turn'.player)
            other == OtherPlayer(game_state, turn'.player)
        IN  /\ Len(after) = Len(before) - 1
            /\ \E k \in 1..Len(before) :
                 /\ before[k] = Commitment(turn'.coordinates, turn'.salt)
                 /\ after = [i \in 1..(Len(before) - 1) |->
                                IF i < k THEN before[i] ELSE before[i + 1]]
            /\ Pending(game_state', other) = Pending(game_state, other)]_vars

\* Bob detonates the first of his two commitments and keeps the second
C14_Witness ==
    /\ moves = 1 /\ turn.op = "detonate_bomb" /\ result = "Ok"
    /\ turn.player = Bob /\ turn.salt = Salt(17, 0, 0)
    /\ Pending(game_state, Bob) = <<Commitment(Coordinates(8, 8), Salt(18, 0, 0))>>

(* C15: an accepted detonate_bomb sets to Empty the Stones of the blast of *)
(* its level around the epicenter (the epicenter; with its 4 orthogonal    *)
(* neighbours; with all 8 neighbours) and leaves every other cell, the     *)
(* Blocks of the blast included, as it was.                                *)
C15_BlastClearsStonesOnly ==
    [][(turn'.op = "detonate_bomb" /\ result' = "Ok") =>
        \A row \in 0..(BOARD_HEIGHT - 1), col \in 0..(BOARD_WIDTH - 1) :
            game_state'.board[row][col] =
                IF /\ InBlast(turn'.power_level, turn'.coordinates, row, col)
                   /\ game_state.board[row][col][1] = "Stone"
                THEN Empty
                ELSE game_state.board[row][col]]_vars

\* a level Three blast at (8, 8) has cleared the stone below it and left the
\* Block at (7, 7) in place
C15_Witness ==
    /\ moves = 1 /\ turn.op = "detonate_bomb" /\ result = "Ok"
    /\ turn.power_level = "Three" /\ turn.coordinates = Coordinates(8, 8)
    /\ last_mover = Some(Bob)
    /\ get_cell(game_state.board, Coordinates(7, 7)) = Block
    /\ get_cell(game_state.board, Coordinates(9, 8)) = Empty
    /\ game_state.last_move # None

(* C16 as stated: detonate_bomb by a participant with an epicenter inside  *)
(* the board and any power level returns a new state or a GameError; it    *)
(* never faults.                                                           *)
C16_DetonationNeverFaults ==
    [][(/\ turn'.op = "detonate_bomb"
        /\ turn'.player \in PlayersOf(game_state)
        /\ turn'.coordinates.row < BOARD_HEIGHT
        /\ turn'.coordinates.col < BOARD_WIDTH) =>
        result' \in GameErrors \cup {"Ok"}]_vars

(* C17: every player's bomb energy lies in 0..5 and never increases; an    *)
(* accepted detonate_bomb at level One, Two, Three lowers the energy of    *)
(* its player by exactly 1, 2, 3 and leaves the opponent's unchanged.      *)
C17_EnergyBoundedAndPaid ==
    [][/\ \A p \in PlayersOf(game_state) :
            /\ Energy(game_state, p) \in 0..BOMB_ENERGY_PER_PLAYER
            /\ Energy(game_state', p) \in 0..BOMB_ENERGY_PER_PLAYER
            /\ Energy(game_state', p) <= Energy(game_state, p)
       /\ (turn'.op = "detonate_bomb" /\ result' = "Ok") =>
            LET other == OtherPlayer(game_state, turn'.player)
            IN  /\ Energy(game_state', turn'.player) =
                       Energy(game_state, turn'.player) - Cost(turn'.power_level)
                /\ Energy(game_state', other) = Energy(game_state, other)]_vars

\* Bob spends his last two units on a level Two detonation
C17_Witness ==
    /\ moves = 1 /\ turn.op = "detonate_bomb" /\ result = "Ok"
    /\ turn.power_level = "Two" /\ turn.player = Bob
    /\ Energy(game_state, Bob) = 0
    /\ Energy(game_state, Alice) = BOMB_ENERGY_PER_PLAYER

(* C18: a detonate_bomb by the next player in an unfinished game, with a   *)
(* matching commitment and an energy below the cost of the level, fails    *)
(* with InsufficientBombEnergy and leaves the state unchanged.             *)
C18_UnaffordableLevelIsRejected ==
    [][(/\ turn'.op = "detonate_bomb"
        /\ turn'.player = game_state.next_player
        /\ game_state.winner = None
        /\ Committed(game_state, turn'.player, turn'.coordinates, turn'.salt)
        /\ Energy(game_state, turn'.player) < Cost(turn'.power_level)) =>
        /\ result' = "InsufficientBombEnergy"
        /\ game_state' = game_state]_vars

\* Bob, left with an energy of 2, asks for level Three on his commitment
C18_Witness ==
    /\ turn.op = "detonate_bomb" /\ result = "InsufficientBombEnergy"
    /\ turn.power_level = "Three" /\ turn.player = Bob
    /\ game_state.next_player = Bob /\ game_state.winner = None
    /\ Energy(game_state, Bob) = 2
    /\ Committed(game_state, Bob, turn.coordinates, turn.salt)

(* C19 as stated: a place_bomb, detonate_bomb or drop_stone called with a  *)
(* handle that is not one of the two players returns a GameError; no such  *)
(* call is fatal.                                                          *)
C19_StrangerGetsAnError ==
    [][(turn'.op \in MoveOps /\ turn'.player \notin PlayersOf(game_state)) =>
        result' \in GameErrors]_vars

-----------------------------------------------------------------------------
(* The win detector on its own: check_winner_player applied once to a      *)
(* board without winner.  The boards are built from seven 2x2 tiles, each  *)
(* left Empty or filled with the stones of one player; tiles that touch    *)
(* make overlapping squares.                                               *)

Tiles == {<<0, 0>>, <<0, 2>>, <<0, 5>>, <<0, 7>>, <<3, 0>>, <<3, 2>>, <<3, 5>>}

\* owner[t] is -1 for an Empty tile, else the index of the player owning it
TileBoard(owner) ==
    [row \in 0..(BOARD_HEIGHT - 1) |-> [col \in 0..(BOARD_WIDTH - 1) |->
        IF \E t \in Tiles : /\ owner[t] # -1
                            /\ row \in t[1]..(t[1] + 1)
                            /\ col \in t[2]..(t[2] + 1)
        THEN Stone(owner[CHOOSE t \in Tiles : /\ owner[t] # -1
                                              /\ row \in t[1]..(t[1] + 1)
                                              /\ col \in t[2]..(t[2] + 1)])
        ELSE Empty]]

InitScan ==
    /\ \E owner \in [Tiles -> -1..(NUM_OF_PLAYERS - 1)] :
         game_state = [new_game(Alice, Bob, None) EXCEPT !.board = TileBoard(owner)]
    /\ turn = [op |-> "new_game"]
    /\ result = "Ok"
    /\ moves = 0
    /\ last_mover = None

CheckWinner ==
    /\ turn.op = "new_game"
    /\ game_state' = check_winner_player(game_state)
    /\ turn' = [op |-> "check_winner_player"]
    /\ result' = "Ok"
    /\ UNCHANGED <<moves, last_mover>>

NextScan == CheckWinner

SpecScan == InitScan /\ [][NextScan]_vars

-----------------------------------------------------------------------------
\* the rank of a window in the row-major scan
Rank(w) == w[1] * BOARD_WIDTH + w[2]

\* the rank at which the player's count of windows reaches three
ThirdRank(board, index) ==
    CHOOSE r \in {Rank(w) : w \in OwnedWindows(board, index)} :
        Cardinality({w \in OwnedWindows(board, index) : Rank(w) <= r}) = 3

\* the first player whose count of windows reaches three in the row-major scan
FirstToThree(board, players) ==
    LET reaching == {i \in 0..(NUM_OF_PLAYERS - 1) :
                        Cardinality(OwnedWindows(board, i)) >= 3}
    IN  IF reaching = {} THEN None
        ELSE Some(players[CHOOSE i \in reaching :
                              \A j \in reaching : ThirdRank(board, i) <= ThirdRank(board, j)])

(* C7 as stated: check_winner_player on a board without winner declares    *)
(* the first player whose count of windows reaches 3 in the row-major      *)
(* scan, and no window scanned later changes the winner.                   *)
C7_FirstToThreeWins ==
    turn.op = "check_winner_player" =>
        game_state.winner = FirstToThree(game_state.board, game_state.players)

-----------------------------------------------------------------------------
(* Game::new_game step by step: the locals of the function are held in     *)
(* game_state while the loop runs, one step per iteration, and the         *)
(* returned GameState after it.  result is "Running" until the return.     *)

\* 65535 and 32767 are fixed points of the generator; seeds from 57266230
\* on saturate the multiplication
BlockSeeds ==
    {None, Some(7357), Some(0), Some(1), Some(2), Some(3), Some(42), Some(1000),
     Some(65534), Some(65535), Some(32767), Some(57266229), Some(57266230),
     Some(2147483647)}

InitBlocks ==
    /\ \E seed \in BlockSeeds :
         /\ game_state = [board |-> Board_new, blocks |-> <<>>,
                          remaining_blocks |-> NUM_OF_BLOCKS,
                          seed |-> IF seed = None THEN INITIAL_SEED ELSE seed[1]]
         /\ turn = [op |-> "new_game", seed |-> seed]
    /\ result = "Running"
    /\ moves = 0
    /\ last_mover = None

DrawBlock ==
    /\ result = "Running"
    /\ game_state.remaining_blocks > 0
    /\ game_state' = draw_block(game_state)
    /\ UNCHANGED <<turn, result, moves, last_mover>>

ReturnGameState ==
    /\ result = "Running"
    /\ ~(game_state.remaining_blocks > 0)
    /\ game_state' = new_game_state(Alice, Bob, game_state.board, game_state.seed)
    /\ result' = "Ok"
    /\ UNCHANGED <<turn, moves, last_mover>>

NextBlocks == DrawBlock \/ ReturnGameState

\* the function runs on: an iteration that can change the locals is taken
SpecBlocks == InitBlocks /\ [][NextBlocks]_vars /\ WF_vars(NextBlocks)

(* C20 as stated: new_game terminates for every seed, the loop reaching 10 *)
(* mutually distinct Block coordinates after finitely many draws.          *)
C20_NewGameTerminates == <>(result = "Ok")

-----------------------------------------------------------------------------
(* The board new_game returns.                                             *)

AllCoordinates ==
    {Coordinates(row, col) : row \in 0..(BOARD_HEIGHT - 1), col \in 0..(BOARD_WIDTH - 1)}

BlocksOf(board) == {c \in AllCoordinates : get_cell(board, c) = Block}

(* C21: whenever new_game returns, the board holds exactly NUM_OF_BLOCKS   *)
(* Block cells at pairwise distinct coordinates, every other cell is       *)
(* Empty, and no Block lies in row 9 or in column 9.                       *)
C21_ReturnedBoardHasTenBlocks ==
    result = "Ok" =>
        /\ Cardinality(BlocksOf(game_state.board)) = NUM_OF_BLOCKS
        /\ \A c \in AllCoordinates \ BlocksOf(game_state.board) :
               get_cell(game_state.board, c) = Empty
        /\ \A c \in BlocksOf(game_state.board) :
               c.row # BOARD_HEIGHT - 1 /\ c.col # BOARD_WIDTH - 1

\* new_game has returned for the seed of the pallet's tests
C21_Witness ==
    /\ result = "Ok"
    /\ turn.seed = Some(7357)
    /\ BlocksOf(game_state.board) # {}

-----------------------------------------------------------------------------
(* One step of the generator of Coordinates::random (mod.rs:84-86) on its  *)
(* own: game_state holds the seed handed in and, after the step, the seed  *)
(* returned.                                                               *)

\* small seeds, the seeds of the tests, the seeds around the modulus, and the
\* seeds around the first one whose product with MULTIPLIER passes u32::MAX
RandomSeeds ==
    (0..99) \cup {7357, 32767, 65535, 65536, 65537, 123456,
                  57266229, 57266230, 57266231, 2147483647}

InitRandom ==
    /\ \E seed \in RandomSeeds :
         /\ game_state = [seed |-> seed]
         /\ turn = [op |-> "linear_congruential_generator", seed |-> seed]
    /\ result = "Running"
    /\ moves = 0
    /\ last_mover = None

Generate ==
    /\ result = "Running"
    /\ game_state' = [seed |-> linear_congruential_generator(game_state.seed)]
    /\ result' = "Ok"
    /\ UNCHANGED <<turn, moves, last_mover>>

NextRandom == Generate

SpecRandom == InitRandom /\ [][NextRandom]_vars

\* (75 * seed + 74) mod 65536 in unbounded arithmetic; the seed is reduced
\* first so that the product stays small
ExactStep(seed) == (75 * (seed % 65536) + 74) % 65536

(* C22 as stated: for every 32-bit seed, one step of the generator returns *)
(* (75 * seed + 74) mod 65536.                                             *)
C22_StepIsExact ==
    result = "Ok" => game_state.seed = ExactStep(turn.seed)

-----------------------------------------------------------------------------
(* Game::new_game and the adapter's init called one after the other on     *)
(* inputs of the caller's choice.  game_state holds the last call and the  *)
(* call before it, each with its arguments and the value it returned.      *)

\* seeds whose block placement ends; None selects INITIAL_SEED = 123456
InitSeeds == {None, Some(123456), Some(7357), Some(42)}

PlayerPairs == {<<Alice, Bob>>, <<Bob, Alice>>, <<Alice, Alice>>, <<Bob, Charlie>>}

PlayerSlices ==
    {<<>>, <<Alice>>, <<Alice, Bob>>, <<Bob, Alice>>, <<Alice, Alice>>,
     <<Alice, Bob, Charlie>>}

InitInit ==
    /\ game_state = [previous |-> None, last |-> None]
    /\ turn = [op |-> "none"]
    /\ result = "Ok"
    /\ moves = 0
    /\ last_mover = None

Returned(op, players, seed, returned) ==
    /\ turn' = [op |-> op, players |-> players, seed |-> seed]
    /\ game_state' = [previous |-> game_state.last,
                      last |-> Some([op |-> op, players |-> players, seed |-> seed,
                                     returned |-> returned])]
    /\ UNCHANGED <<moves, last_mover>>

NewGame ==
    \E players \in PlayerPairs, seed \in InitSeeds :
        /\ Returned("new_game", players, seed, new_game(players[1], players[2], seed))
        /\ result' = "Ok"

AdapterInit ==
    \E players \in PlayerSlices, seed \in InitSeeds :
        /\ Returned("init", players, seed, init(players, seed))
        /\ result' = IF init(players, seed) = None THEN "None" ELSE "Some"

NextInit == NewGame \/ AdapterInit

SpecInit == InitInit /\ [][NextInit]_vars

\* the last call and the one before it, when both are calls of op
LastTwo(op) ==
    /\ game_state.previous # None
    /\ game_state.previous[1].op = op
    /\ game_state.last[1].op = op

SameArguments ==
    /\ game_state.previous[1].players = game_state.last[1].players
    /\ game_state.previous[1].seed = game_state.last[1].seed

LastIs(op, players, seed) ==
    /\ game_state.last # None
    /\ game_state.last[1].op = op
    /\ game_state.last[1].players = players
    /\ game_state.last[1].seed = seed

(* C24: new_game(Alice, Bob, seed 123456) returns a state with resulting   *)
(* seed 46384, no winner, Alice as next_player, energy 5 for both players, *)
(* empty pending lists and no last_move.                                   *)
C24_NewGameScenario ==
    LastIs("new_game", <<Alice, Bob>>, Some(123456)) =>
        LET state == game_state.last[1].returned
        IN  /\ state.seed = 46384
            /\ state.winner = None
            /\ state.next_player = Alice
            /\ \A player \in {Alice, Bob} :
                   /\ is_player_in_game(state, player)
                   /\ get_bomb_energy_for(state, player) = Some(5)
            /\ \A i \in DOMAIN state.bombs_placed : state.bombs_placed[i] = <<>>
            /\ state.last_move = None

\* new_game(Alice, Bob, Some(123456)) has returned, with blocks on its board
C24_Witness ==
    /\ LastIs("new_game", <<Alice, Bob>>, Some(123456))
    /\ BlocksOf(game_state.last[1].returned.board) # {}

(* C27: the adapter's init returns a state, equal to                       *)
(* new_game(players[0], players[1], seed), exactly when the slice of       *)
(* players has length 2, and none for every other length.                  *)
C27_InitNeedsTwoPlayers ==
    (game_state.last # None /\ game_state.last[1].op = "init") =>
        LET call == game_state.last[1]
        IN  /\ Len(call.players) = 2 =>
                   call.returned = Some(new_game(call.players[1], call.players[2],
                                                 call.seed))
            /\ Len(call.players) # 2 => call.returned = None
            /\ call.returned # None <=> Len(call.players) = 2

\* init has been called with three players, and before it with two
C27_Witness ==
    /\ LastTwo("init")
    /\ Len(game_state.last[1].players) = 3
    /\ Len(game_state.previous[1].players) = 2
    /\ game_state.previous[1].returned # None

-----------------------------------------------------------------------------
(* abort and is_finished (types.rs:131-142).                               *)

OtherFields == DOMAIN new_game(Alice, Bob, None) \ {"winner"}

(* C25: abort(state, w), on a finished or an unfinished state and for any  *)
(* w, returns a state whose winner is w and whose other fields are those   *)
(* of state, and is_finished reports Winner(w) on it; is_finished reports  *)
(* No exactly when the winner is none.                                     *)
C25_AbortSetsOnlyTheWinner ==
    [][/\ turn'.op = "abort" =>
            /\ game_state'.winner = Some(turn'.winner)
            /\ \A f \in OtherFields : game_state'[f] = game_state[f]
            /\ DOMAIN game_state' = DOMAIN game_state
            /\ is_finished(game_state') = [finished |-> "Winner", winner |-> turn'.winner]
       /\ is_finished(game_state').finished = "No" <=> game_state'.winner = None
       /\ is_finished(game_state).finished = "No" <=> game_state.winner = None]_vars

\* abort names Charlie, who does not play, on the game Alice has won
C25_Witness ==
    /\ turn.op = "abort" /\ turn.winner = Charlie
    /\ is_finished(game_state) = [finished |-> "Winner", winner |-> Charlie]
    /\ last_mover = Some(Alice)
    /\ Cardinality(OwnedWindows(game_state.board, IndexOf(game_state, Alice))) >= 3
    /\ game_state.last_move # None

-----------------------------------------------------------------------------
(* get_last_player and get_next_player (types.rs:104-114).                 *)

(* C26 as stated: after any accepted play_turn by player p, with           *)
(* PlaceBomb, DetonateBomb or DropStone, get_last_player on the returned   *)
(* state is p, the player that played its turn last, and differs from      *)
(* get_next_player.                                                        *)
C26_LastPlayerIsTheMover ==
    [][(AcceptedMove
          /\ play_turn(turn'.player, game_state, AsTurn(turn')) = Return(Some(game_state')))
       => /\ get_last_player(game_state') = turn'.player
          /\ get_last_player(game_state') # get_next_player(game_state')]_vars

-----------------------------------------------------------------------------
(* Rejected moves.                                                         *)

RejectedMove == turn'.op \in MoveOps /\ result' \in GameErrors

\* the game_state the engine function holds when it returns its error
StateAtError(t, gs) == dispatch(t.player, gs, AsTurn(t)).local

(* C28: when a move of any kind is rejected with any GameError, no part of *)
(* the game state (board, energy, pending commitments, next_player,        *)
(* last_move, winner, seed) differs from the state before the call:        *)
(* neither the state the function held when it returned the error nor the  *)
(* state the game goes on with.                                            *)
C28_RejectedMoveChangesNothing ==
    [][RejectedMove =>
        /\ StateAtError(turn', game_state) = game_state
        /\ game_state' = game_state]_vars

\* Bob, left with an energy of 2, was refused level Three on his commitment,
\* where the blast would have cleared stones
C28_Witness ==
    /\ turn.op = "detonate_bomb" /\ result = "InsufficientBombEnergy"
    /\ turn.player = Bob
    /\ Committed(game_state, Bob, turn.coordinates, turn.salt)
    /\ explode(turn.power_level, game_state, turn.coordinates).res = "Ok"
    /\ explode(turn.power_level, game_state, turn.coordinates).state.board
           # game_state.board

-----------------------------------------------------------------------------
(* The order of the checks.                                                *)

\* the first check of detonate_bomb that fails for a player of the game,
\* in the order commitment, finished, turn, energy; "Ok" when none fails
FirstFailureOfDetonate(gs, t) ==
    IF ~Committed(gs, t.player, t.coordinates, t.salt) THEN "InvalidBombCoordinates"
    ELSE IF gs.winner # None THEN "GameAlreadyFinished"
    ELSE IF t.player # gs.next_player THEN "NotPlayerTurn"
    ELSE IF Energy(gs, t.player) < Cost(t.power_level) THEN "InsufficientBombEnergy"
    ELSE "Ok"

(* C29: detonate_bomb checks its preconditions in this order, and the      *)
(* first that fails decides the error: a matching commitment in the        *)
(* mover's list (InvalidBombCoordinates), the game not finished            *)
(* (GameAlreadyFinished), the mover's turn (NotPlayerTurn), enough energy  *)
(* for the level (InsufficientBombEnergy).                                 *)
C29_DetonateCheckOrder ==
    [][(turn'.op = "detonate_bomb" /\ turn'.player \in PlayersOf(game_state)) =>
        LET first == FirstFailureOfDetonate(game_state, turn')
        IN  /\ first # "Ok" => result' = first
            /\ first = "Ok" => result' \notin GameErrors]_vars

\* Bob reveals his commitment on a finished game, out of turn and for a level
\* he cannot pay: the three checks after the commitment fail together
C29_Witness ==
    /\ turn.op = "detonate_bomb" /\ turn.player = Bob
    /\ result = "GameAlreadyFinished"
    /\ Committed(game_state, Bob, turn.coordinates, turn.salt)
    /\ game_state.winner # None
    /\ game_state.next_player # Bob
    /\ Energy(game_state, Bob) < Cost(turn.power_level)

\* the first check of place_bomb that fails, in the order finished, turn,
\* number of pending commitments, duplicate; "Ok" when none fails
FirstFailureOfPlace(gs, t) ==
    IF gs.winner # None THEN "GameAlreadyFinished"
    ELSE IF t.player # gs.next_player THEN "NotPlayerTurn"
    ELSE IF Len(Pending(gs, t.player)) >= 3 THEN "NoMoreBombsAvailable"
    ELSE IF Committed(gs, t.player, t.coordinates, t.salt) THEN "InvalidBombCoordinates"
    ELSE "Ok"

\* the first check of drop_stone that fails, in the order finished, turn,
\* boundary cell; "Ok" when none fails
FirstFailureOfDrop(gs, t) ==
    IF gs.winner # None THEN "GameAlreadyFinished"
    ELSE IF t.player # gs.next_player THEN "NotPlayerTurn"
    ELSE IF get_cell(gs.board, bound_coordinates(t.side, t.position)) # Empty
         THEN "InvalidStonePosition"
    ELSE "Ok"

(* C30: place_bomb and drop_stone check GameAlreadyFinished first, then    *)
(* NotPlayerTurn, then the condition of their kind (for place_bomb         *)
(* NoMoreBombsAvailable before the duplicate commitment, for drop_stone    *)
(* InvalidStonePosition), and the first check that fails decides the       *)
(* error returned.  When no check fails, place_bomb is accepted, and       *)
(* drop_stone returns no error other than that of its kind.                *)
C30_PlaceAndDropCheckOrder ==
    [][/\ turn'.op = "place_bomb" =>
            LET first == FirstFailureOfPlace(game_state, turn')
            IN  result' = first
       /\ turn'.op = "drop_stone" =>
            LET first == FirstFailureOfDrop(game_state, turn')
            IN  /\ first # "Ok" => result' = first
                /\ first = "Ok" => result' \in {"Ok", "InvalidStonePosition"}]_vars

\* Bob, with three commitments pending, places one of them again on a
\* finished game and out of turn: all four checks of place_bomb fail together
C30_Witness ==
    /\ turn.op = "place_bomb" /\ turn.player = Bob
    /\ result = "GameAlreadyFinished"
    /\ game_state.next_player # Bob
    /\ Len(Pending(game_state, Bob)) >= 3
    /\ Committed(game_state, Bob, turn.coordinates, turn.salt)

-----------------------------------------------------------------------------
(* What an accepted move changes and what it leaves alone.                 *)

ChangedCells(before, after) ==
    {c \in AllCoordinates : get_cell(after, c) # get_cell(before, c)}

(* C31: an accepted drop_stone changes exactly one cell of the board, from *)
(* Empty to the Stone of the mover's index, sets last_move to (mover,      *)
(* side, position), and leaves the energy of both players, both pending    *)
(* lists, the players and the seed unchanged.                              *)
C31_DropStoneFrame ==
    [][(turn'.op = "drop_stone" /\ result' = "Ok") =>
        LET changed == ChangedCells(game_state.board, game_state'.board)
        IN  /\ Cardinality(changed) = 1
            /\ \A c \in changed :
                   /\ get_cell(game_state.board, c) = Empty
                   /\ get_cell(game_state'.board, c) =
                          Stone(IndexOf(game_state, turn'.player))
            /\ game_state'.last_move =
                   Some([player |-> turn'.player, side |-> turn'.side,
                         position |-> turn'.position])
            /\ game_state'.bomb_energy = game_state.bomb_energy
            /\ game_state'.bombs_placed = game_state.bombs_placed
            /\ game_state'.players = game_state.players
            /\ game_state'.seed = game_state.seed]_vars

\* Alice drops a stone from the East while Bob holds three commitments, and
\* the last move before was another one
C31_Witness ==
    /\ moves = 1 /\ turn.op = "drop_stone" /\ result = "Ok"
    /\ turn.player = Alice /\ turn.side = "East"
    /\ game_state.last_move = Some([player |-> Alice, side |-> "East",
                                    position |-> turn.position])
    /\ Len(Pending(game_state, Bob)) = 3

-----------------------------------------------------------------------------
(* Games in which both players commit to the same coordinates with the     *)
(* same salt: the roots are prefixes of SharedOpening, played through      *)
(* play_turn, and the moves are those of Next.                             *)

SharedOpening ==
    <<[player |-> Alice, turn |-> Turn_DropStone("North", 8)],
      [player |-> Bob,   turn |-> Turn_DropStone("North", 8)],
      [player |-> Alice, turn |-> Turn_PlaceBomb(Coordinates(8, 8), Salt(17, 0, 0))],
      [player |-> Bob,   turn |-> Turn_PlaceBomb(Coordinates(8, 8), Salt(17, 0, 0))],
      [player |-> Alice, turn |-> Turn_PlaceBomb(Coordinates(9, 9), Salt(17, 0, 0))]>>

\* the lengths of the prefixes of SharedOpening the model starts from
SharedOpeningCuts == {4, 5}

InitShared ==
    /\ \E seed \in Seeds, n \in SharedOpeningCuts :
         LET start == Replay([state |-> new_game(Alice, Bob, seed), last_mover |-> None],
                             SharedOpening, 1, n)
         IN  /\ game_state = start.state
             /\ last_mover = start.last_mover
    /\ turn = [op |-> "new_game"]
    /\ result = "Ok"
    /\ moves = 0

SpecShared == InitShared /\ [][Next]_vars

(* C32: bomb moves never touch what they do not own.  An accepted          *)
(* place_bomb leaves the board, the energy, the winner, last_move, the     *)
(* seed and the opponent's pending list unchanged; an accepted             *)
(* detonate_bomb leaves the winner, last_move, the seed, the opponent's    *)
(* energy and the opponent's pending list unchanged, even when the         *)
(* opponent holds a commitment for the same coordinates and salt.          *)
C32_BombMovesFrame ==
    [][/\ (turn'.op = "place_bomb" /\ result' = "Ok") =>
            LET opponent == OtherPlayer(game_state, turn'.player)
            IN  /\ game_state'.board = game_state.board
                /\ game_state'.bomb_energy = game_state.bomb_energy
                /\ game_state'.winner = game_state.winner
                /\ game_state'.last_move = game_state.last_move
                /\ game_state'.seed = game_state.seed
                /\ Pending(game_state', opponent) = Pending(game_state, opponent)
       /\ (turn'.op = "detonate_bomb" /\ result' = "Ok") =>
            LET opponent == OtherPlayer(game_state, turn'.player)
            IN  /\ game_state'.winner = game_state.winner
                /\ game_state'.last_move = game_state.last_move
                /\ game_state'.seed = game_state.seed
                /\ Energy(game_state', opponent) = Energy(game_state, opponent)
                /\ Pending(game_state', opponent) = Pending(game_state, opponent)]_vars

\* Alice has detonated the commitment that Bob holds too, and Bob still
\* holds it
C32_Witness ==
    /\ moves = 1 /\ turn.op = "detonate_bomb" /\ result = "Ok"
    /\ turn.player = Alice
    /\ ~Committed(game_state, Alice, turn.coordinates, turn.salt)
    /\ Committed(game_state, Bob, turn.coordinates, turn.salt)
    /\ Energy(game_state, Alice) < Energy(game_state, Bob)

(* C33: a player can detonate only their own commitments: detonate_bomb    *)
(* with coordinates and a salt that are pending only in the opponent's     *)
(* list is rejected with InvalidBombCoordinates.                           *)
C33_OpponentsCommitmentIsRejected ==
    [][(/\ turn'.op = "detonate_bomb"
        /\ turn'.player \in PlayersOf(game_state)
        /\ ~Committed(game_state, turn'.player, turn'.coordinates, turn'.salt)
        /\ Committed(game_state, OtherPlayer(game_state, turn'.player),
                     turn'.coordinates, turn'.salt)) =>
        /\ result' = "InvalidBombCoordinates"
        /\ game_state' = game_state]_vars

\* Bob, whose turn it is and who holds a commitment of his own, is refused
\* the one that only Alice holds
C33_Witness ==
    /\ turn.op = "detonate_bomb" /\ result = "InvalidBombCoordinates"
    /\ turn.player = Bob /\ game_state.next_player = Bob
    /\ game_state.winner = None
    /\ Pending(game_state, Bob) # <<>>
    /\ ~Committed(game_state, Bob, turn.coordinates, turn.salt)
    /\ Committed(game_state, Alice, turn.coordinates, turn.salt)

-----------------------------------------------------------------------------
(* What holds in every state of a game.                                    *)

\* the Block cells new_game placed on the board of the game gs belongs to:
\* no move assigns seed, so the seed new_game returned tells its boards apart
PlacedByNewGame(gs) ==
    LET initial == CHOOSE g \in {new_game(gs.players[0], gs.players[1], seed) :
                                    seed \in Seeds} : g.seed = gs.seed
    IN  BlocksOf(initial.board)

(* C34: in every state reached from new_game by place_bomb, detonate_bomb  *)
(* and drop_stone, the set of Block cells is the set new_game placed: no   *)
(* move creates, removes or overwrites a Block, and the board holds        *)
(* exactly 10 Blocks.                                                      *)
C34_BlocksNeverChange ==
    /\ BlocksOf(game_state.board) = PlacedByNewGame(game_state)
    /\ Cardinality(BlocksOf(game_state.board)) = 10

\* a detonation at level Three has been accepted whose blast reached a Block
C34_Witness ==
    /\ moves = 1 /\ turn.op = "detonate_bomb" /\ result = "Ok"
    /\ turn.power_level = "Three"
    /\ \E c \in BlocksOf(game_state.board) :
           InBlast(turn.power_level, turn.coordinates, c.row, c.col)

(* C35: in every state reached from new_game by place_bomb, detonate_bomb  *)
(* and drop_stone, without abort, when there is no winner neither player   *)
(* owns three or more 2x2 windows of own stones.  (abort sets a winner, so *)
(* the states it leads to are not among those the claim speaks of.)        *)
C35_NoWinnerMeansUnderThreeWindows ==
    game_state.winner = None =>
        \A index \in 0..(NUM_OF_PLAYERS - 1) :
            Cardinality(OwnedWindows(game_state.board, index)) < 3

\* a move has been accepted and the game is open with Alice owning two
\* windows
C35_Witness ==
    /\ moves = 1 /\ turn.op \in MoveOps /\ result = "Ok"
    /\ game_state.winner = None
    /\ Cardinality(OwnedWindows(game_state.board, IndexOf(game_state, Alice))) = 2

BothOwnThreeWindows(board) ==
    \A index \in 0..(NUM_OF_PLAYERS - 1) :
        Cardinality(OwnedWindows(board, index)) >= 3

(* C36: in every game played from new_game with two distinct players       *)
(* through accepted moves only, whenever a drop_stone sets the winner the  *)
(* winner is the player who made that drop, and the two players never both *)
(* own three windows in the scan that follows a drop.                      *)
C36_WinnerIsTheDropper ==
    [][(turn'.op = "drop_stone" /\ result' = "Ok") =>
        /\ (game_state.winner = None /\ game_state'.winner # None) =>
               game_state'.winner = Some(turn'.player)
        /\ ~BothOwnThreeWindows(game_state'.board)]_vars

\* Alice's drop has completed her third window while Bob's stones lie on
\* the board, and she is the winner
C36_Witness ==
    /\ moves = 1 /\ turn.op = "drop_stone" /\ result = "Ok"
    /\ turn.player = Alice
    /\ game_state.winner = Some(Alice)
    /\ Cardinality(OwnedWindows(game_state.board, IndexOf(game_state, Alice))) >= 3
    /\ \E c \in AllCoordinates :
           get_cell(game_state.board, c) = Stone(IndexOf(game_state, Bob))

-----------------------------------------------------------------------------
(* Whole games, from new_game to the position in which no call is accepted *)
(* any more, with the accepted moves counted: moves[p][op] is the number   *)
(* of calls of op by player p that were accepted so far.  One player       *)
(* commits and detonates bombs, in columns 1 to 3; the other drops stones  *)
(* on columns 6 and 9, which hold no Block and do not touch, so that the   *)
(* game is never won and runs until the bombs are used up.  Either player  *)
(* may be the first to move.                                               *)

CountBombs ==
    {<<Coordinates(4, 2), Salt(17, 0, 0)>>, <<Coordinates(4, 2), Salt(18, 0, 0)>>,
     <<Coordinates(5, 2), Salt(17, 0, 0)>>}

CountDrops == {<<"North", 6>>, <<"North", 9>>}

NoMoves == [p \in Players |-> [op \in MoveOps |-> 0]]

InitCount ==
    /\ \E players \in {<<Alice, Bob>>, <<Bob, Alice>>} :
         game_state = new_game(players[1], players[2], None)
    /\ turn = [op |-> "new_game"]
    /\ result = "Ok"
    /\ moves = NoMoves
    /\ last_mover = None

CountedCall(t, r) ==
    /\ turn' = t
    /\ result' = r.res
    /\ game_state' = IF r.res = "Ok" THEN r.state ELSE game_state
    /\ moves' = IF r.res = "Ok" THEN [moves EXCEPT ![t.player][t.op] = @ + 1] ELSE moves
    /\ last_mover' = IF r.res = "Ok" THEN Some(t.player) ELSE last_mover

CountedPlaceBomb ==
    \E bomb \in CountBombs :
        CountedCall([op |-> "place_bomb", player |-> Bob, coordinates |-> bomb[1],
                     salt |-> bomb[2]],
                    place_bomb(game_state, Bob, bomb[1], bomb[2]))

CountedDetonateBomb ==
    \E bomb \in CountBombs, power_level \in PowerLevels :
        CountedCall([op |-> "detonate_bomb", player |-> Bob, coordinates |-> bomb[1],
                     salt |-> bomb[2], power_level |-> power_level],
                    detonate_bomb(game_state, Bob, bomb[1], bomb[2], power_level))

CountedDropStone ==
    \E drop \in CountDrops :
        CountedCall([op |-> "drop_stone", player |-> Alice, side |-> drop[1],
                     position |-> drop[2]],
                    drop_stone(game_state, Alice, drop[1], drop[2]))

NextCount == CountedPlaceBomb \/ CountedDetonateBomb \/ CountedDropStone

SpecCount == InitCount /\ [][NextCount]_vars

(* C37: over any game played from new_game, each player has at most 5      *)
(* accepted detonate_bomb moves and at most 8 accepted place_bomb moves.   *)
C37_BombMovesAreBounded ==
    \A p \in Players :
        /\ moves[p]["detonate_bomb"] <= 5
        /\ moves[p]["place_bomb"] <= 8

\* Bob has detonated five bombs and placed eight, and holds three
\* commitments he can no longer reveal
C37_Witness ==
    /\ moves[Bob]["detonate_bomb"] = 5
    /\ moves[Bob]["place_bomb"] = 8
    /\ Len(Pending(game_state, Bob)) = 3
    /\ Energy(game_state, Bob) = 0

=============================================================================
